---- MODULE Spec2Model ----
(***************************************************************************)
(* A model of the analytics core of the VALORANT scouting tool             *)
(* (src/dynamic_scouting_engine.py, the DuckDB engine).                    *)
(*                                                                         *)
(* The storage is read-only: the tables are the state, each operation of   *)
(* the engine is one action that reads them and leaves its output in       *)
(* `result` (and what was called in `call`).                               *)
(*                                                                         *)
(* Number conventions: a percentage rounded to one decimal is an integer   *)
(* number of tenths (60.0 is 600); a ratio rounded to two decimals is an   *)
(* integer number of hundredths (0.85 is 85).  A formatted string "W-L"    *)
(* is the pair of the two numbers it prints.  SQL NULL / Python None is    *)
(* the string NULL for ids and the number NullNum for numbers.             *)
(*                                                                         *)
(* A query whose ORDER BY is not a total order, or whose LIMIT cuts a      *)
(* set of rows that tie, may return any of the orders the engine can       *)
(* produce: each query is the SET of its possible fetchall() results.      *)
(***************************************************************************)
EXTENDS Integers, Sequences, FiniteSets, TLC

\* ---------------------------------------------------------------- bounds
MaxSeries == 2
MaxN == 1
ScenarioSeries == 10
MaxGames == 3
MaxRoster == 2
MaxPlayerGames == 3
MaxPistols == 10
MaxMapGames == 4
MaxPlants == 3
MaxViewRows == 2
MaxRequests == 3
MaxChat == 2

\* ------------------------------------------------------ program constants
DefaultLastN == 10
RecentSeriesShown == 5
MIN_API_INTERVAL == 3
RetrySleep == 5
MapStatsFloor == 2
WeaponRows == 15
\* thresholds of get_team_weaknesses; rates in tenths of a percent, the
\* kill-death ratio in hundredths
WeakMapRate == 450
VeryWeakMapRate == 350
WeakMapGames == 3
WeakPistolRate == 400
VeryWeakPistolRate == 300
WeakPlayerKd == 90
WeakPlayerGames == 3
WeakRetakeRate == 350

\* -------------------------------------------------------------- universes
NULL == "NULL"
NullNum == -1

TeamArgs == {"Sentinels", "Cloud9"}
TeamIdOf(name) ==
    CASE name = "Sentinels" -> "id_sen"
      [] name = "Cloud9" -> "id_c9"
      [] OTHER -> "id_loud"

VARIABLES series, games, game_compositions, rounds, player_economy,
          weapon_kills, v_team_map_stats, v_pistol_performance,
          call, frame, result,
          event_loop, analyzer, llm_api, session_state

vars == <<series, games, game_compositions, rounds, player_economy,
          weapon_kills, v_team_map_stats, v_pistol_performance,
          call, frame, result,
          event_loop, analyzer, llm_api, session_state>>

\* what lives outside the engine: the API backend's event loop, the
\* GeminiAnalyzer object, the text-generation API's clock, the Streamlit session
services == <<event_loop, analyzer, llm_api, session_state>>

NotRunning == [state |-> "not running"]

NoServices ==
    /\ event_loop = NotRunning /\ analyzer = NotRunning
    /\ llm_api = NotRunning /\ session_state = NotRunning
tables == <<series, games, game_compositions, rounds, player_economy,
            weapon_kills, v_team_map_stats, v_pistol_performance>>

\* the two views the PostgreSQL engine reads have no rows
NoViews == v_team_map_stats = <<>> /\ v_pistol_performance = <<>>

\* ---------------------------------------------------------------- helpers
Range(s) == {s[i] : i \in DOMAIN s}

Min2(a, b) == IF a <= b THEN a ELSE b

RECURSIVE SumOver(_, _)
\* the sum of f[x] over the finite set S (SQL SUM / Python sum)
SumOver(S, f) ==
    IF S = {} THEN 0
    ELSE LET x == CHOOSE y \in S : TRUE IN f[x] + SumOver(S \ {x}, f)

RECURSIVE SumSeq(_)
SumSeq(s) == IF s = <<>> THEN 0 ELSE Head(s) + SumSeq(Tail(s))

\* SQL comparison a = b: not true when either side is NULL
SqlEq(a, b) == a # NULL /\ b # NULL /\ a = b

\* the same for the numeric keys (game_id, series_id), whose NULL is NullNum
SqlEqNum(a, b) == a # NullNum /\ b # NullNum /\ a = b

\* SQL ROUND(num/den, d) with the result counted in units of 10^-d: the caller
\* scales num; half rounds away from zero (num, den >= 0, den > 0)
SqlRound(num, den) == (2 * num + den) \div (2 * den)

\* Python round(num/den, d), result in units of 10^-d: half rounds to even
PyRound(num, den) ==
    LET q == num \div den
        r == num % den
    IN  IF 2 * r < den THEN q
        ELSE IF 2 * r > den THEN q + 1
        ELSE IF q % 2 = 0 THEN q ELSE q + 1

RECURSIVE OrderedLimit(_, _, _)
\* ORDER BY key DESC LIMIT k over the rows S: every sequence the engine may
\* return (rows with equal keys come in any order, and LIMIT may keep any of them)
OrderedLimit(S, key, k) ==
    IF k = 0 \/ S = {} THEN {<<>>}
    ELSE LET top == {x \in S : \A y \in S : key[y] <= key[x]}
         IN  UNION {{<<x>> \o t : t \in OrderedLimit(S \ {x}, key, k - 1)} : x \in top}

\* ORDER BY key DESC LIMIT k over the rows S when only the SET of rows kept
\* matters (the rows are aggregated afterwards): every set the engine may keep
LimitSets(S, key, k) ==
    IF Cardinality(S) <= k THEN {S}
    ELSE {W \in SUBSET S :
            /\ Cardinality(W) = k
            /\ \A x \in W, y \in S \ W : key[y] <= key[x]}

\* rows in no stated order (a query without ORDER BY): every order of the set S
AnyOrder(S) == OrderedLimit(S, [x \in S |-> 0], Cardinality(S))

\* the alphabetical rank of the names the queries sort by
NameRank(name) ==
    CASE name = "ascent" -> 1 [] name = "bind" -> 2 [] name = "haven" -> 3
      [] name = "attack" -> 1 [] name = "defense" -> 2
      [] name = "jett" -> 1 [] name = "omen" -> 2 [] name = "sova" -> 3
      [] name = "classic" -> 1 [] name = "ghost" -> 2 [] name = "vandal" -> 3
      [] OTHER -> 9

\* ------------------------------------------------------------ get_all_teams
get_all_teams ==
    {series[i].team1_name : i \in DOMAIN series}
        \cup {series[i].team2_name : i \in DOMAIN series}

\* -------------------------------------------------------- get_team_overview
\* a plausible slip: the team is taken to be team1 of every series
held_team_id_always_team1(s, team_name) == s.team1_id

\* the id the team holds in series row s: CASE WHEN team1_name = ? THEN team1_id
\* ELSE team2_id END
held_team_id(s, team_name) ==
    IF s.team1_name = team_name THEN s.team1_id ELSE s.team2_id

\* the rows of series_query: the finished series of the team, most recently
\* started first, at most last_n_matches of them
series_query(team_name, last_n_matches) ==
    LET cand == {i \in DOMAIN series :
                    /\ (series[i].team1_name = team_name \/ series[i].team2_name = team_name)
                    /\ series[i].finished}
        key == [i \in cand |-> series[i].started_at]
        row(i) ==
            LET s == series[i]
                asTeam1 == s.team1_name = team_name
                heldId == held_team_id(s, team_name)
            IN  [series_id |-> s.series_id,
                 tournament_name |-> s.tournament_name,
                 opponent |-> IF asTeam1 THEN s.team2_name ELSE s.team1_name,
                 result |-> IF SqlEq(s.winner_team_id, heldId) THEN "WIN" ELSE "LOSS",
                 team_score |-> IF asTeam1 THEN s.team1_score ELSE s.team2_score,
                 opponent_score |-> IF asTeam1 THEN s.team2_score ELSE s.team1_score,
                 started_at |-> s.started_at]
    IN  {[j \in DOMAIN order |-> row(order[j])] :
            order \in OrderedLimit(cand, key, last_n_matches)}

\* the rows of map_query: per map, over the join of games with the team's
\* game_compositions rows (one joined row per composition row), the row count,
\* the rows won and the two average round counts in tenths; only maps with at
\* least MapStatsFloor joined rows, most rows first
map_join(team_name) ==
    {jc \in (DOMAIN games) \X (DOMAIN game_compositions) :
        /\ SqlEqNum(games[jc[1]].game_id, game_compositions[jc[2]].game_id)
        /\ game_compositions[jc[2]].team_name = team_name}

map_query(team_name) ==
    LET J == map_join(team_name)
        maps == {games[jc[1]].map_name : jc \in J}
        grp(m) == {jc \in J : games[jc[1]].map_name = m}
        cnt(m) == Cardinality(grp(m))
        kept == {m \in maps : cnt(m) >= MapStatsFloor}
        won(jc) == IF SqlEq(game_compositions[jc[2]].team_id, games[jc[1]].team1_id)
                   THEN games[jc[1]].team1_score ELSE games[jc[1]].team2_score
        lost(jc) == IF SqlEq(game_compositions[jc[2]].team_id, games[jc[1]].team1_id)
                    THEN games[jc[1]].team2_score ELSE games[jc[1]].team1_score
        row(m) ==
            [map_name |-> m,
             games_played |-> cnt(m),
             wins |-> Cardinality({jc \in grp(m) :
                        SqlEq(games[jc[1]].winner_team_id, game_compositions[jc[2]].team_id)}),
             avg_rounds_won |-> SqlRound(10 * SumOver(grp(m), [jc \in grp(m) |-> won(jc)]), cnt(m)),
             avg_rounds_lost |-> SqlRound(10 * SumOver(grp(m), [jc \in grp(m) |-> lost(jc)]), cnt(m))]
        key == [m \in kept |-> cnt(m)]
    IN  {[j \in DOMAIN order |-> row(order[j])] :
            order \in OrderedLimit(kept, key, Cardinality(kept))}

\* a plausible slip: round(wins/total) * 100, the parenthesis misplaced
win_rate_of_misplaced_round(wins, total) ==
    IF total > 0 THEN PyRound(wins, total) * 1000 ELSE 0

\* round(wins/total * 100, 1) if total > 0 else 0, in tenths of a percent
win_rate_of(wins, total) ==
    IF total > 0 THEN PyRound(wins * 1000, total) ELSE 0

\* the dictionary get_team_overview builds from the two fetched row lists
get_team_overview(team_name, last_n_matches, recent_series, map_stats) ==
    LET wins == Cardinality({j \in DOMAIN recent_series : recent_series[j].result = "WIN"})
        total == Len(recent_series)
    IN  [team_name |-> team_name,
         recent_matches |-> last_n_matches,
         series_record |-> <<wins, total - wins>>,
         win_rate |-> win_rate_of(wins, total),
         recent_series |->
            [j \in 1..Min2(RecentSeriesShown, total) |->
                [opponent |-> recent_series[j].opponent,
                 result |-> recent_series[j].result,
                 score |-> <<recent_series[j].team_score, recent_series[j].opponent_score>>,
                 tournament |-> recent_series[j].tournament_name]],
         map_stats |->
            [j \in DOMAIN map_stats |->
                [map |-> map_stats[j].map_name,
                 games |-> map_stats[j].games_played,
                 wins |-> map_stats[j].wins,
                 win_rate |-> win_rate_of(map_stats[j].wins, map_stats[j].games_played),
                 avg_round_diff |-> map_stats[j].avg_rounds_won - map_stats[j].avg_rounds_lost]]]

\* every output get_team_overview can return on the current storage
Overviews(team_name, last_n_matches) ==
    {get_team_overview(team_name, last_n_matches, rs, ms) :
        rs \in series_query(team_name, last_n_matches), ms \in map_query(team_name)}

\* ------------------------------------------------------- shared sub-queries
\* team_info: SELECT DISTINCT team_id ... WHERE team_name = ? LIMIT 1, with no
\* ORDER BY: any one of the ids the compositions give the name (none: no row)
team_info(team_name) ==
    {game_compositions[c].team_id :
        c \in {x \in DOMAIN game_compositions : game_compositions[x].team_name = team_name}}

\* the recent_games CTE: the games the team has composition rows for, by their
\* series' start time, most recent first, at most `limit`; every set of games
\* the LIMIT may keep (the games of one series tie)
recent_games(team_name, limit) ==
    LET cand == {j \in (DOMAIN games) \X (DOMAIN series) :
                    /\ SqlEqNum(games[j[1]].series_id, series[j[2]].series_id)
                    /\ \E c \in DOMAIN game_compositions :
                          /\ SqlEqNum(games[j[1]].game_id, game_compositions[c].game_id)
                          /\ game_compositions[c].team_name = team_name}
        key == [j \in cand |-> series[j[2]].started_at]
    IN  {{games[j[1]].game_id : j \in W} : W \in LimitSets(cand, key, limit)}

\* ----------------------------------------------------- get_team_compositions
\* STRING_AGG(agent, ', ' ORDER BY agent) over the composition rows C: the
\* agents in alphabetical order
composition_of(C) ==
    LET order == CHOOSE o \in OrderedLimit(C, [c \in C |-> 0 - NameRank(game_compositions[c].agent)],
                                           Cardinality(C)) : TRUE
    IN  [i \in DOMAIN order |-> game_compositions[order[i]].agent]

\* the rows of comp_query, already grouped by map as the loop over them does:
\* map -> [agents, times_played, pick_rate] most played first
comp_query(team_name, last_n_matches) ==
    LET cand == {g \in DOMAIN games :
                    \E c \in DOMAIN game_compositions :
                        /\ SqlEqNum(games[g].game_id, game_compositions[c].game_id)
                        /\ game_compositions[c].team_name = team_name}
        key == [g \in cand |-> games[g].series_id]
        rowsOf(g) == {c \in DOMAIN game_compositions :
                        /\ SqlEqNum(games[g].game_id, game_compositions[c].game_id)
                        /\ game_compositions[c].team_name = team_name}
        byMap(W) ==
            LET maps == {games[g].map_name : g \in W}
                on(m) == {g \in W : games[g].map_name = m}
                comps(m) == {composition_of(rowsOf(g)) : g \in on(m)}
                times(m, k) == Cardinality({g \in on(m) : composition_of(rowsOf(g)) = k})
                lists(m) ==
                    {[i \in DOMAIN order |->
                        [agents |-> order[i], times_played |-> times(m, order[i]),
                         pick_rate |-> SqlRound(times(m, order[i]) * 1000, Cardinality(on(m)))]] :
                     order \in OrderedLimit(comps(m), [k \in comps(m) |-> times(m, k)],
                                            Cardinality(comps(m)))}
            IN  {f \in [maps -> UNION {lists(m) : m \in maps}] : \A m \in maps : f[m] \in lists(m)}
    IN  UNION {byMap(W) : W \in LimitSets(cand, key, last_n_matches * 3)}

\* the rows of agent_query over the games rg: per (agent, role) the picks and
\* the pick rate in tenths against the number of games, most picked first
agent_query_over(team_name, rg) ==
    LET rows == {c \in DOMAIN game_compositions :
                    /\ game_compositions[c].game_id \in rg
                    /\ game_compositions[c].team_name = team_name}
        groups == {<<game_compositions[c].agent, game_compositions[c].agent_role>> : c \in rows}
        picks(a) == Cardinality({c \in rows :
                        <<game_compositions[c].agent, game_compositions[c].agent_role>> = a})
        row(a) == [agent |-> a[1], agent_role |-> a[2], picks |-> picks(a),
                   pick_rate |-> SqlRound(picks(a) * 1000, Cardinality(rg))]
    IN  {[i \in DOMAIN order |-> row(order[i])] :
            order \in OrderedLimit(groups, [a \in groups |-> picks(a)], Cardinality(groups))}

agent_query(team_name, last_n_matches) ==
    UNION {agent_query_over(team_name, rg) : rg \in recent_games(team_name, last_n_matches * 3)}

\* role -> share of the picks in tenths of a percent; a NULL role is "Unknown"
calculate_role_distribution(agent_picks) ==
    LET total == SumSeq([i \in DOMAIN agent_picks |-> agent_picks[i].picks])
        roleOf(i) == IF agent_picks[i].agent_role = NULL THEN "Unknown"
                     ELSE agent_picks[i].agent_role
        roles == {roleOf(i) : i \in DOMAIN agent_picks}
        count(r) == LET is == {i \in DOMAIN agent_picks : roleOf(i) = r}
                    IN  SumOver(is, [i \in is |-> agent_picks[i].picks])
    IN  IF total > 0 THEN [r \in roles |-> PyRound(count(r) * 1000, total)] ELSE <<>>

get_team_compositions(team_name, last_n_matches, comp_by_map, agent_picks) ==
    [team_name |-> team_name,
     compositions_by_map |-> comp_by_map,
     agent_picks |->
        [i \in DOMAIN agent_picks |->
            [agent |-> agent_picks[i].agent, role |-> agent_picks[i].agent_role,
             picks |-> agent_picks[i].picks, pick_rate |-> agent_picks[i].pick_rate]],
     role_distribution |-> calculate_role_distribution(agent_picks)]

TeamCompositions(team_name, last_n_matches) ==
    {get_team_compositions(team_name, last_n_matches, cm, apk) :
        cm \in comp_query(team_name, last_n_matches),
        apk \in agent_query(team_name, last_n_matches)}

\* ---------------------------------------------------- get_pistol_tendencies
\* rounds JOIN games JOIN series, as (round, game, series) row numbers
rounds_games_series ==
    {j \in (DOMAIN rounds) \X (DOMAIN games) \X (DOMAIN series) :
        /\ SqlEqNum(rounds[j[1]].game_id, games[j[2]].game_id)
        /\ SqlEqNum(rounds[j[1]].series_id, series[j[3]].series_id)}

\* a plausible slip: the side read off the defender column
side_of_swapped(r, ti) == IF SqlEq(r.defender_team_id, ti) THEN "attack" ELSE "defense"

\* CASE WHEN r.attacker_team_id = ti.team_id THEN 'attack' ELSE 'defense' END
side_of(r, ti) == IF SqlEq(r.attacker_team_id, ti) THEN "attack" ELSE "defense"

\* CASE WHEN r.winner_team_id = ti.team_id THEN 1 ELSE 0 END
won_of(r, ti) == IF SqlEq(r.winner_team_id, ti) THEN 1 ELSE 0

\* the rows of pistol_query for the team id ti: per (side, map) the pistol rounds
\* kept by the LIMIT, the rounds won and the win rate in tenths; by side, most
\* rounds first
pistol_query_for(ti, last_n_matches) ==
    LET cand == {j \in rounds_games_series :
                    /\ rounds[j[1]].is_pistol_round
                    /\ (SqlEq(rounds[j[1]].attacker_team_id, ti)
                            \/ SqlEq(rounds[j[1]].defender_team_id, ti))}
        key == [j \in cand |-> series[j[3]].started_at]
        stats(W) ==
            LET groups == {<<side_of(rounds[j[1]], ti), games[j[2]].map_name>> : j \in W}
                grp(g) == {j \in W : <<side_of(rounds[j[1]], ti), games[j[2]].map_name>> = g}
                row(g) ==
                    LET wins == SumOver(grp(g), [j \in grp(g) |-> won_of(rounds[j[1]], ti)])
                    IN  [side |-> g[1], map_name |-> g[2],
                         rounds |-> Cardinality(grp(g)),
                         wins |-> wins,
                         win_rate |-> SqlRound(wins * 1000, Cardinality(grp(g)))]
                okey == [g \in groups |-> Cardinality(grp(g)) - 1000 * NameRank(g[1])]
            IN  {[i \in DOMAIN order |-> row(order[i])] :
                    order \in OrderedLimit(groups, okey, Cardinality(groups))}
    IN  UNION {stats(W) : W \in LimitSets(cand, key, last_n_matches * 6)}

pistol_query(team_name, last_n_matches) ==
    IF team_info(team_name) = {} THEN {<<>>}
    ELSE UNION {pistol_query_for(ti, last_n_matches) : ti \in team_info(team_name)}

RECURSIVE FilterSeq(_, _)
\* [p for p in rows if p[field] = keep]: the rows whose side is `keep`, in order
FilterSeq(rows, keep) ==
    IF rows = <<>> THEN <<>>
    ELSE IF Head(rows).side = keep
         THEN <<Head(rows)>> \o FilterSeq(Tail(rows), keep)
         ELSE FilterSeq(Tail(rows), keep)

get_pistol_tendencies(team_name, last_n_matches, pistol_stats) ==
    LET attack_stats == FilterSeq(pistol_stats, "attack")
        defense_stats == FilterSeq(pistol_stats, "defense")
        attack_total == SumSeq([i \in DOMAIN attack_stats |-> attack_stats[i].rounds])
        attack_wins == SumSeq([i \in DOMAIN attack_stats |-> attack_stats[i].wins])
        defense_total == SumSeq([i \in DOMAIN defense_stats |-> defense_stats[i].rounds])
        defense_wins == SumSeq([i \in DOMAIN defense_stats |-> defense_stats[i].wins])
        by_map(st) == [i \in DOMAIN st |->
                        [map |-> st[i].map_name, rounds |-> st[i].rounds,
                         wins |-> st[i].wins, win_rate |-> st[i].win_rate]]
    IN  [team_name |-> team_name,
         attack_pistol |->
            [total |-> attack_total, wins |-> attack_wins,
             win_rate |-> win_rate_of(attack_wins, attack_total),
             by_map |-> by_map(attack_stats)],
         defense_pistol |->
            [total |-> defense_total, wins |-> defense_wins,
             win_rate |-> win_rate_of(defense_wins, defense_total),
             by_map |-> by_map(defense_stats)],
         overall_pistol_win_rate |->
            win_rate_of(attack_wins + defense_wins, attack_total + defense_total)]

PistolTendencies(team_name, last_n_matches) ==
    {get_pistol_tendencies(team_name, last_n_matches, ps) :
        ps \in pistol_query(team_name, last_n_matches)}

\* --------------------------------------------------------- get_player_stats
\* a plausible slip: the zero guard forgotten on the divisor's NULLIF, the ratio
\* of a player without deaths reported as 0
ratio_or_null_zero(num, den) == IF den = 0 THEN 0 ELSE SqlRound(num, den)

\* ROUND(num / NULLIF(den, 0), 2) with num already scaled to hundredths: NULL
\* when den is 0
ratio_or_null(num, den) == IF den = 0 THEN NullNum ELSE SqlRound(num, den)

\* where ORDER BY kd_ratio DESC puts a NULL ratio: DuckDB's default_null_order,
\* last in current versions and first in old ones
NullSortKeys == {-1, 1000000}

\* the rows of player_query over the games rg
player_query_over(team_name, rg) ==
    LET rows == {e \in DOMAIN player_economy :
                    /\ player_economy[e].game_id \in rg
                    /\ player_economy[e].team_id \in team_info(team_name)}
        names == {player_economy[e].player_name : e \in rows}
        of(n) == {e \in rows : player_economy[e].player_name = n}
        kills(n) == SumOver(of(n), [e \in of(n) |-> player_economy[e].total_kills])
        deaths(n) == SumOver(of(n), [e \in of(n) |-> player_economy[e].total_deaths])
        assists(n) == SumOver(of(n), [e \in of(n) |-> player_economy[e].total_assists])
        row(n) ==
            [player_name |-> n,
             games |-> Cardinality({player_economy[e].game_id : e \in of(n)}),
             kills |-> kills(n), deaths |-> deaths(n), assists |-> assists(n),
             kd_ratio |-> ratio_or_null(kills(n) * 100, deaths(n)),
             kda |-> ratio_or_null((2 * kills(n) + assists(n)) * 100, 2 * deaths(n))]
        key(nk) == [n \in names |-> IF row(n).kd_ratio = NullNum THEN nk ELSE row(n).kd_ratio]
    IN  UNION {{[i \in DOMAIN order |-> row(order[i])] :
                    order \in OrderedLimit(names, key(nk), Cardinality(names))} :
               nk \in NullSortKeys}

player_query(team_name, last_n_matches) ==
    UNION {player_query_over(team_name, rg) : rg \in recent_games(team_name, last_n_matches * 3)}

\* the rows of agent_pool_query over the games rg, already grouped by player as
\* the loop over them does: player -> [agent, role, games] most played first
agent_pools_over(team_name, rg) ==
    LET rows == {c \in DOMAIN game_compositions :
                    /\ game_compositions[c].game_id \in rg
                    /\ game_compositions[c].team_name = team_name}
        names == {game_compositions[c].player_name : c \in rows}
        picks(n) == {<<game_compositions[c].agent, game_compositions[c].agent_role>> :
                        c \in {x \in rows : game_compositions[x].player_name = n}}
        times(n, a) == Cardinality({c \in rows :
                            /\ game_compositions[c].player_name = n
                            /\ <<game_compositions[c].agent, game_compositions[c].agent_role>> = a})
        pools(n) ==
            {[i \in DOMAIN order |->
                [agent |-> order[i][1], role |-> order[i][2], games |-> times(n, order[i])]] :
             order \in OrderedLimit(picks(n), [a \in picks(n) |-> times(n, a)],
                                    Cardinality(picks(n)))}
    IN  {f \in [names -> UNION {pools(n) : n \in names}] : \A n \in names : f[n] \in pools(n)}

agent_pool_query(team_name, last_n_matches) ==
    UNION {agent_pools_over(team_name, rg) : rg \in recent_games(team_name, last_n_matches * 3)}

get_player_stats(team_name, last_n_matches, player_stats, pools_by_player) ==
    [team_name |-> team_name,
     players |->
        [i \in DOMAIN player_stats |->
            [name |-> player_stats[i].player_name,
             games |-> player_stats[i].games,
             kills |-> player_stats[i].kills,
             deaths |-> player_stats[i].deaths,
             assists |-> player_stats[i].assists,
             kd_ratio |-> player_stats[i].kd_ratio,
             kda |-> player_stats[i].kda,
             agent_pool |-> IF player_stats[i].player_name \in DOMAIN pools_by_player
                            THEN pools_by_player[player_stats[i].player_name]
                            ELSE <<>>]]]

PlayerStats(team_name, last_n_matches) ==
    {get_player_stats(team_name, last_n_matches, ps, ap) :
        ps \in player_query(team_name, last_n_matches),
        ap \in agent_pool_query(team_name, last_n_matches)}

\* -------------------------------------------------------- get_round_patterns
\* the rows of round_query for the team id ti: the rounds the team won among
\* those the LIMIT keeps, counted per (side, win type); by side, most first
round_query_for(ti, last_n_matches) ==
    LET cand == {j \in rounds_games_series :
                    \/ SqlEq(rounds[j[1]].attacker_team_id, ti)
                    \/ SqlEq(rounds[j[1]].defender_team_id, ti)}
        key == [j \in cand |-> series[j[3]].started_at]
        stats(W) ==
            LET wonRows == {j \in W : won_of(rounds[j[1]], ti) = 1}
                groups == {<<side_of(rounds[j[1]], ti), rounds[j[1]].win_type>> : j \in wonRows}
                grp(g) == {j \in wonRows :
                            <<side_of(rounds[j[1]], ti), rounds[j[1]].win_type>> = g}
                row(g) == [team_side |-> g[1], win_type |-> g[2],
                           occurrences |-> Cardinality(grp(g)),
                           team_wins |-> SumOver(grp(g), [j \in grp(g) |-> won_of(rounds[j[1]], ti)])]
                okey == [g \in groups |-> Cardinality(grp(g)) - 1000 * NameRank(g[1])]
            IN  {[i \in DOMAIN order |-> row(order[i])] :
                    order \in OrderedLimit(groups, okey, Cardinality(groups))}
    IN  UNION {stats(W) : W \in LimitSets(cand, key, last_n_matches * 30)}

round_query(team_name, last_n_matches) ==
    IF team_info(team_name) = {} THEN {<<>>}
    ELSE UNION {round_query_for(ti, last_n_matches) : ti \in team_info(team_name)}

\* the rows of post_plant_query for the team id ti: per side, the rounds with
\* the bomb planted that the LIMIT keeps, those won, the conversion rate in
\* tenths; the query states no order
post_plant_query_for(ti, last_n_matches) ==
    LET cand == {j \in (DOMAIN rounds) \X (DOMAIN series) :
                    /\ SqlEqNum(rounds[j[1]].series_id, series[j[2]].series_id)
                    /\ rounds[j[1]].bomb_planted
                    /\ (SqlEq(rounds[j[1]].attacker_team_id, ti)
                            \/ SqlEq(rounds[j[1]].defender_team_id, ti))}
        key == [j \in cand |-> series[j[2]].started_at]
        stats(W) ==
            LET sides == {side_of(rounds[j[1]], ti) : j \in W}
                grp(sd) == {j \in W : side_of(rounds[j[1]], ti) = sd}
                row(sd) ==
                    LET wins == SumOver(grp(sd), [j \in grp(sd) |-> won_of(rounds[j[1]], ti)])
                    IN  [team_side |-> sd,
                         post_plant_situations |-> Cardinality(grp(sd)),
                         wins |-> wins,
                         conversion_rate |-> SqlRound(wins * 1000, Cardinality(grp(sd)))]
            IN  {[i \in DOMAIN order |-> row(order[i])] : order \in AnyOrder(sides)}
    IN  UNION {stats(W) : W \in LimitSets(cand, key, last_n_matches * 20)}

post_plant_query(team_name, last_n_matches) ==
    IF team_info(team_name) = {} THEN {<<>>}
    ELSE UNION {post_plant_query_for(ti, last_n_matches) : ti \in team_info(team_name)}

RECURSIVE WinConditions(_, _)
\* [{"type": p[1], "count": p[3]} for p in round_patterns if p[0] == side]
WinConditions(rows, side) ==
    IF rows = <<>> THEN <<>>
    ELSE IF Head(rows).team_side = side
         THEN <<[type |-> Head(rows).win_type, count |-> Head(rows).team_wins]>>
                \o WinConditions(Tail(rows), side)
         ELSE WinConditions(Tail(rows), side)

get_round_patterns(team_name, last_n_matches, round_patterns, post_plant) ==
    [team_name |-> team_name,
     win_conditions |-> [attack |-> WinConditions(round_patterns, "attack"),
                         defense |-> WinConditions(round_patterns, "defense")],
     post_plant |->
        [i \in DOMAIN post_plant |->
            [side |-> post_plant[i].team_side,
             situations |-> post_plant[i].post_plant_situations,
             wins |-> post_plant[i].wins,
             conversion_rate |-> post_plant[i].conversion_rate]]]

RoundPatterns(team_name, last_n_matches) ==
    {get_round_patterns(team_name, last_n_matches, rp, pp) :
        rp \in round_query(team_name, last_n_matches),
        pp \in post_plant_query(team_name, last_n_matches)}

\* --------------------------------------------------------- get_weapon_economy
\* the rows of weapon_query: the kills of the team (one id of it) per weapon,
\* most kills first, at most WeaponRows weapons
weapon_query_for(ti) ==
    LET rows == {j \in (DOMAIN weapon_kills) \X (DOMAIN series) :
                    /\ SqlEqNum(weapon_kills[j[1]].series_id, series[j[2]].series_id)
                    /\ SqlEq(weapon_kills[j[1]].team_id, ti)}
        names == {weapon_kills[j[1]].weapon_name : j \in rows}
        of(w) == {j \in rows : weapon_kills[j[1]].weapon_name = w}
        row(w) == [weapon_name |-> w,
                   total_kills |-> SumOver(of(w), [j \in of(w) |-> weapon_kills[j[1]].kill_count]),
                   games_used |-> Cardinality({weapon_kills[j[1]].game_id : j \in of(w)})]
        key == [w \in names |-> row(w).total_kills]
    IN  {[i \in DOMAIN order |-> row(order[i])] : order \in OrderedLimit(names, key, WeaponRows)}

weapon_query(team_name) ==
    IF team_info(team_name) = {} THEN {<<>>}
    ELSE UNION {weapon_query_for(ti) : ti \in team_info(team_name)}

get_weapon_economy(team_name, last_n_matches, weapon_stats) ==
    [team_name |-> team_name,
     weapon_usage |->
        [i \in DOMAIN weapon_stats |->
            [weapon |-> weapon_stats[i].weapon_name,
             kills |-> weapon_stats[i].total_kills,
             games |-> weapon_stats[i].games_used]]]

WeaponEconomies(team_name, last_n_matches) ==
    {get_weapon_economy(team_name, last_n_matches, ws) : ws \in weapon_query(team_name)}

\* --------------------------------------------------------- get_head_to_head
\* the rows of h2h_query: every series between the two teams, either way round,
\* most recently started first; winner is a team NAME
h2h_query(team1, team2) ==
    LET cand == {i \in DOMAIN series :
                    \/ series[i].team1_name = team1 /\ series[i].team2_name = team2
                    \/ series[i].team1_name = team2 /\ series[i].team2_name = team1}
        key == [i \in cand |-> series[i].started_at]
        row(i) ==
            LET s == series[i]
            IN  [series_id |-> s.series_id,
                 tournament_name |-> s.tournament_name,
                 team1_name |-> s.team1_name, team2_name |-> s.team2_name,
                 team1_score |-> s.team1_score, team2_score |-> s.team2_score,
                 winner |-> CASE s.team1_name = team1 /\ SqlEq(s.winner_team_id, s.team1_id) -> team1
                              [] s.team2_name = team1 /\ SqlEq(s.winner_team_id, s.team2_id) -> team1
                              [] OTHER -> team2,
                 started_at |-> s.started_at]
    IN  {[j \in DOMAIN order |-> row(order[j])] :
            order \in OrderedLimit(cand, key, Cardinality(cand))}

get_head_to_head(team1, team2, matches) ==
    LET team1_wins == Cardinality({j \in DOMAIN matches : matches[j].winner = team1})
    IN  [team1 |-> team1, team2 |-> team2,
         total_matches |-> Len(matches),
         team1_wins |-> team1_wins,
         team2_wins |-> Len(matches) - team1_wins,
         matches |->
            [j \in DOMAIN matches |->
                [tournament |-> matches[j].tournament_name,
                 score |-> IF matches[j].team1_name = team1
                           THEN <<matches[j].team1_score, matches[j].team2_score>>
                           ELSE <<matches[j].team2_score, matches[j].team1_score>>,
                 winner |-> matches[j].winner]]]

\* ------------------------------------------------------- get_team_weaknesses
\* str.title() of the map names
Title(name) ==
    CASE name = "ascent" -> "Ascent" [] name = "bind" -> "Bind"
      [] name = "haven" -> "Haven" [] OTHER -> name

RECURSIVE WeakMaps(_)
\* [m for m in map_stats if m['win_rate'] < 45 and m['games'] >= 3], in order
WeakMaps(map_stats) ==
    IF map_stats = <<>> THEN <<>>
    ELSE IF Head(map_stats).win_rate < WeakMapRate /\ Head(map_stats).games >= WeakMapGames
         THEN <<Head(map_stats)>> \o WeakMaps(Tail(map_stats))
         ELSE WeakMaps(Tail(map_stats))

RECURSIVE WeakPlayers(_)
\* [p for p in players if p['kd_ratio'] < 0.9 and p['games'] >= 3], in order
\* (evaluated only when no kd_ratio is None)
WeakPlayers(players) ==
    IF players = <<>> THEN <<>>
    ELSE IF Head(players).kd_ratio < WeakPlayerKd /\ Head(players).games >= WeakPlayerGames
         THEN <<Head(players)>> \o WeakPlayers(Tail(players))
         ELSE WeakPlayers(Tail(players))

map_pool_finding(overview) ==
    LET weak_maps == WeakMaps(overview.map_stats)
    IN  IF weak_maps = <<>> THEN <<>>
        ELSE <<[category |-> "Map Pool",
                severity |-> IF \E i \in DOMAIN weak_maps : weak_maps[i].win_rate < VeryWeakMapRate
                             THEN "HIGH" ELSE "MEDIUM",
                finding |-> [text |-> "Struggles on {n} map(s)", n |-> Len(weak_maps)],
                details |-> [i \in DOMAIN weak_maps |->
                                [name |-> Title(weak_maps[i].map),
                                 win_rate |-> weak_maps[i].win_rate,
                                 wins |-> weak_maps[i].wins,
                                 games |-> weak_maps[i].games]],
                recommendation |-> [text |-> "Force {map} in map veto",
                                    target |-> Title(weak_maps[1].map)]]>>

\* a plausible slip: <= for < at the pistol threshold
pistol_flagged_inclusive(rate) == rate <= WeakPistolRate

\* attack_pistol < 40 / defense_pistol < 40
pistol_flagged(rate) == rate < WeakPistolRate

\* a plausible slip: the graver pistol finding is graded CRITICAL, the word of
\* the summary
pistol_severity_critical(rate) == IF rate < VeryWeakPistolRate THEN "CRITICAL" ELSE "MEDIUM"

\* "HIGH" if rate < 30 else "MEDIUM"
pistol_severity(rate) == IF rate < VeryWeakPistolRate THEN "HIGH" ELSE "MEDIUM"

pistol_findings(pistol) ==
    LET attack_pistol == pistol.attack_pistol.win_rate
        defense_pistol == pistol.defense_pistol.win_rate
    IN  (IF pistol_flagged(attack_pistol)
         THEN <<[category |-> "Pistol Rounds",
                 severity |-> pistol_severity(attack_pistol),
                 finding |-> [text |-> "Weak attack pistol rounds ({rate}%)", rate |-> attack_pistol],
                 details |-> <<[side |-> "Attack", rate |-> attack_pistol,
                                other |-> "Defense", other_rate |-> defense_pistol]>>,
                 recommendation |-> "Expect defensive pistol wins, prepare for anti-eco"]>>
         ELSE <<>>)
        \o
        (IF pistol_flagged(defense_pistol)
         THEN <<[category |-> "Pistol Rounds",
                 severity |-> pistol_severity(defense_pistol),
                 finding |-> [text |-> "Weak defense pistol rounds ({rate}%)", rate |-> defense_pistol],
                 details |-> <<[side |-> "Defense", rate |-> defense_pistol,
                                other |-> "Attack", other_rate |-> attack_pistol]>>,
                 recommendation |-> "Aggressive attack pistol executes will succeed"]>>
         ELSE <<>>)

\* comparing None with 0.9 raises TypeError: any player whose kd_ratio is None
player_comparison_raises(players) ==
    \E i \in DOMAIN players.players : players.players[i].kd_ratio = NullNum

player_finding(players) ==
    LET weak_players == WeakPlayers(players.players)
    IN  IF weak_players = <<>> THEN <<>>
        ELSE <<[category |-> "Player Performance",
                severity |-> "MEDIUM",
                finding |-> [text |-> "{n} player(s) underperforming (KD < 0.9)",
                             n |-> Len(weak_players)],
                details |-> [i \in DOMAIN weak_players |->
                                [name |-> weak_players[i].name,
                                 kd_ratio |-> weak_players[i].kd_ratio]],
                recommendation |-> [text |-> "Target {name} in duels",
                                    target |-> weak_players[1].name]]>>

\* a plausible slip: the row of the attack side is taken for the retakes
is_defense_row_attack(p) == p.side = "attack"

\* p['side'] == 'defense'
is_defense_row(p) == p.side = "defense"

post_plant_finding(patterns) ==
    LET post_plant == patterns.post_plant
        defs == {i \in DOMAIN post_plant : is_defense_row(post_plant[i])}
    IN  IF defs = {} THEN <<>>
        ELSE LET defense_pp == post_plant[CHOOSE i \in defs : \A k \in defs : i <= k]
             IN  IF defense_pp.conversion_rate < WeakRetakeRate
                 THEN <<[category |-> "Post-Plant",
                         severity |-> "MEDIUM",
                         finding |-> [text |-> "Poor retake ability ({rate}%)",
                                      rate |-> defense_pp.conversion_rate],
                         details |-> <<[wins |-> defense_pp.wins,
                                        situations |-> defense_pp.situations]>>,
                         recommendation |-> "Prioritize spike plants - they struggle to retake"]>>
                 ELSE <<>>

\* a plausible slip: the critical summary lists the category of every finding
summarize_weaknesses_all_categories(weaknesses) ==
    LET high == SelectSeq(weaknesses, LAMBDA w : w.severity = "HIGH")
    IN  IF weaknesses = <<>>
        THEN [text |-> "No significant weaknesses identified - well-rounded team."]
        ELSE IF high # <<>>
        THEN [text |-> "CRITICAL: {n} major weakness(es) - {categories}",
              n |-> Len(high),
              categories |-> [i \in DOMAIN weaknesses |-> weaknesses[i].category]]
        ELSE [text |-> "Found {n} exploitable weakness(es)", n |-> Len(weaknesses)]

\* _summarize_weaknesses: the three summary strings, with the numbers and the
\* category names they print
summarize_weaknesses(weaknesses) ==
    LET high == SelectSeq(weaknesses, LAMBDA w : w.severity = "HIGH")
    IN  IF weaknesses = <<>>
        THEN [text |-> "No significant weaknesses identified - well-rounded team."]
        ELSE IF high # <<>>
        THEN [text |-> "CRITICAL: {n} major weakness(es) - {categories}",
              n |-> Len(high),
              categories |-> [i \in DOMAIN high |-> high[i].category]]
        ELSE [text |-> "Found {n} exploitable weakness(es)", n |-> Len(weaknesses)]

\* the handler from its four sub-results: how it ends (returned, or the
\* exception raised), the findings list as built when it ends, and what it returns
get_team_weaknesses(team_name, last_n_matches, overview, pistol, players, patterns) ==
    LET upToPistol == map_pool_finding(overview) \o pistol_findings(pistol)
        weaknesses == upToPistol \o player_finding(players) \o post_plant_finding(patterns)
    IN  IF player_comparison_raises(players)
        THEN [raised |-> "TypeError", weaknesses |-> upToPistol,
              overview |-> overview, pistol |-> pistol, players |-> players,
              patterns |-> patterns]
        ELSE [raised |-> "", weaknesses |-> weaknesses,
              overview |-> overview, pistol |-> pistol, players |-> players,
              patterns |-> patterns,
              value |-> [team_name |-> team_name,
                         total_weaknesses |-> Len(weaknesses),
                         weaknesses |-> weaknesses,
                         summary |-> summarize_weaknesses(weaknesses)]]

TeamWeaknesses(team_name, last_n_matches) ==
    {get_team_weaknesses(team_name, last_n_matches, ov, pi, pl, pa) :
        ov \in Overviews(team_name, last_n_matches),
        pi \in PistolTendencies(team_name, last_n_matches),
        pl \in PlayerStats(team_name, last_n_matches),
        pa \in RoundPatterns(team_name, last_n_matches)}

\* ------------------------------- PostgreSQL engine: get_team_weaknesses
\* team_name ILIKE '%arg%' over the team names of the views: the names that
\* contain the argument
ILike(name, arg) == name = arg \/ (arg = "Cloud9" /\ name = "Cloud9 Blue")

RECURSIVE FlaggedPistols(_)
\* for p in pistol_stats: if p['win_rate'] < 40: one finding
FlaggedPistols(pistol_stats) ==
    IF pistol_stats = <<>> THEN <<>>
    ELSE (IF Head(pistol_stats).win_rate < WeakPistolRate
          THEN <<[category |-> "Pistol Rounds",
                  severity |-> "MEDIUM",
                  finding |-> [text |-> "Weak {side} pistol rounds",
                               side |-> IF Head(pistol_stats).is_attack
                                        THEN "attack" ELSE "defense"],
                  details |-> [text |-> "Win rate of {rate}%",
                               rate |-> Head(pistol_stats).win_rate],
                  recommendation |->
                      [text |-> "Exploit their {side} side pistol with aggressive plays",
                       side |-> IF Head(pistol_stats).is_attack
                                THEN "attack" ELSE "defense"]]>>
          ELSE <<>>) \o FlaggedPistols(Tail(pistol_stats))

\* map_query of the PostgreSQL engine: the view rows of the team with
\* win_rate < 45 and games >= 3, lowest win rate first
postgres_map_query(team_name) ==
    LET rows == {i \in DOMAIN v_team_map_stats :
                    /\ ILike(v_team_map_stats[i].team_name, team_name)
                    /\ v_team_map_stats[i].win_rate < WeakMapRate
                    /\ v_team_map_stats[i].games >= WeakMapGames}
    IN  {[k \in DOMAIN order |-> v_team_map_stats[order[k]]] :
            order \in OrderedLimit(rows, [i \in rows |-> 0 - v_team_map_stats[i].win_rate],
                                   Cardinality(rows))}

\* pistol_query of the PostgreSQL engine: the view rows of the team, no order stated
postgres_pistol_query(team_name) ==
    LET rows == {i \in DOMAIN v_pistol_performance :
                    ILike(v_pistol_performance[i].team_name, team_name)}
    IN  {[k \in DOMAIN order |-> v_pistol_performance[order[k]]] : order \in AnyOrder(rows)}

\* the handler of the PostgreSQL engine from the rows of its two queries: one
\* finding per weak map, then one per weak pistol side
postgres_get_team_weaknesses(team_name, weak_maps, pistol_stats) ==
    [weaknesses |->
        [k \in DOMAIN weak_maps |->
            [category |-> "Map Pool",
             severity |-> IF weak_maps[k].win_rate < VeryWeakMapRate THEN "HIGH" ELSE "MEDIUM",
             finding |-> [text |-> "Poor performance on {map}", map |-> weak_maps[k].map],
             details |-> [text |-> "Win rate of {rate}% across {games} games",
                          rate |-> weak_maps[k].win_rate, games |-> weak_maps[k].games],
             recommendation |->
                 [text |-> "Consider banning {map} or prepare specific counter-strategies",
                  map |-> weak_maps[k].map]]]
        \o FlaggedPistols(pistol_stats)]

\* ----------------------------------------------- generate_full_scouting_data
\* the aggregation calls of one generate_full_scouting_data, in the order the
\* dictionary literal makes them; the last one, get_team_weaknesses, makes four
\* aggregation calls of its own
FullCalls ==
    <<"overview", "compositions", "pistol_rounds", "players", "round_patterns",
      "weapon_economy", "weaknesses.overview", "weaknesses.pistol",
      "weaknesses.players", "weaknesses.patterns">>

\* where the storage may fail with a query error during one call: nowhere, or
\* in exactly one of the aggregation calls
FaultPoints == {"none"} \cup Range(FullCalls)

\* a plausible slip: every call guarded, the assembler going on after a failure
CallsStartedGuarded(fault) == Range(FullCalls)

\* the aggregation calls started by one generate_full_scouting_data: all of
\* them, or those up to the one that raised
CallsStarted(fault) ==
    IF fault = "none" THEN Range(FullCalls)
    ELSE LET k == CHOOSE i \in DOMAIN FullCalls : FullCalls[i] = fault
         IN  {FullCalls[i] : i \in 1..k}

\* the sections assembled before the call at `fault` raised
SectionsBefore(fault) ==
    LET k == CHOOSE i \in DOMAIN FullCalls : FullCalls[i] = fault
    IN  {FullCalls[i] : i \in 1..(Min2(k, Len(FullCalls) - 3) - 1)}

\* the handler from its seven sub-results: no call of it is guarded, so the
\* query error of a failing call, or the TypeError of get_team_weaknesses, leaves
\* the handler as it is raised
generate_full_scouting_data(fault, overview, compositions, pistol_rounds, players, round_patterns, weapon_economy, weaknesses) ==
    IF fault # "none" THEN [raised |-> "QueryError"]
    ELSE IF weaknesses.raised # "" THEN [raised |-> weaknesses.raised]
    ELSE [raised |-> "",
          value |-> [overview |-> overview,
                     compositions |-> compositions,
                     pistol_rounds |-> pistol_rounds,
                     players |-> players,
                     round_patterns |-> round_patterns,
                     weapon_economy |-> weapon_economy,
                     weaknesses |-> weaknesses.value]]

\* ------------------------------------------- natural-language layer: ask
\* a SQL text is the sequence of its words; the upper-case form of a word
Upper(w) ==
    CASE w = "select" -> "SELECT"
      [] w = "from" -> "FROM"
      [] w = "drop" -> "DROP"
      [] w = "table" -> "TABLE"
      [] w = "Delete" -> "DELETE"
      [] w = "updated_at" -> "UPDATED_AT"
      [] w = "with" -> "WITH"
      [] OTHER -> w

\* the statements a connection opened with read_only=True refuses to run
WriteTokens == {"DROP", "DELETE", "UPDATE", "INSERT", "ALTER", "TRUNCATE", "CREATE"}

HasWriteToken(sql) == \E i \in DOMAIN sql : Upper(sql[i]) \in WriteTokens

\* what the language model may answer to a prompt: its call raises, or it
\* returns a text, with or without a code fence around it
ModelTexts ==
    {<<"FENCE_SQL", "SELECT", "*", "FROM", "series", "FENCE">>,
     <<"select", "*", "from", "gamez">>,
     <<"drop", "table", "series">>,
     <<"Delete", "FROM", "games">>}

ModelReplies ==
    {[ok |-> FALSE, text |-> <<>>]} \cup {[ok |-> TRUE, text |-> t] : t \in ModelTexts}

\* response.text.strip() with the opening fence (written FENCE_SQL here) and
\* the closing fence (FENCE) of a code block replaced by nothing
IsFence(w) == w \in {"FENCE_SQL", "FENCE"}

strip_fences(text) == SelectSeq(text, LAMBDA w : ~IsFence(w))

\* the texts execute_sql hands to conn.execute for the text it is given: the
\* text itself, whatever it holds
passed_to_connection(sql) == <<sql>>

\* what conn.execute(sql).fetchdf() may do with a text: return rows, return no
\* row, or raise; the read-only connection raises on every write statement
ConnOutcomes(sql) ==
    IF HasWriteToken(sql) THEN {"error"} ELSE {"rows", "empty", "error"}

\* execute_sql: the outcome of conn.execute as a dictionary; an error message is
\* a sequence of words (that of a failed statement names the statement), and
\* "error": None is the empty one
execute_sql(sql, outcome) ==
    IF outcome = "error"
    THEN [success |-> FALSE, data |-> <<>>, row_count |-> 0,
          error |-> <<"error in">> \o sql]
    ELSE [success |-> TRUE, data |-> IF outcome = "rows" THEN <<"record">> ELSE <<>>,
          row_count |-> IF outcome = "rows" THEN 1 ELSE 0, error |-> <<>>]

\* a plausible slip: the repaired text reported as a success once it came back
try_fix_sql_unchecked(client, fix, outcome) ==
    IF ~client \/ ~fix.ok THEN [success |-> FALSE]
    ELSE [success |-> TRUE,
          fixed_sql |-> strip_fences(fix.text),
          result |-> execute_sql(strip_fences(fix.text), outcome)]

\* _try_fix_sql: the repaired text is executed as it comes back
try_fix_sql(client, fix, outcome) ==
    IF ~client \/ ~fix.ok THEN [success |-> FALSE]
    ELSE [success |-> execute_sql(strip_fences(fix.text), outcome).success,
          fixed_sql |-> strip_fences(fix.text),
          result |-> execute_sql(strip_fences(fix.text), outcome)]

\* _interpret_results: None without a client or without data, or when the
\* call of the language model raises
interpret_results(client, data, interpretation) ==
    IF ~client \/ data = <<>> THEN NULL ELSE interpretation

\* "results": None
NoResults == [none |-> TRUE]

AskError(question, team_name, sql, error) ==
    [question |-> question, team |-> team_name, sql |-> sql, results |-> NoResults,
     interpretation |-> NULL, error |-> error]

AskAnswer(question, team_name, sql, exec_result, interpretation) ==
    [question |-> question, team |-> team_name, sql |-> sql,
     results |-> [none |-> FALSE, data |-> exec_result.data,
                  row_count |-> exec_result.row_count],
     interpretation |-> interpretation, error |-> <<>>]

\* ask from the answers of the language model (gen, fix, interpretation) and
\* of the connection (out1, out2): the value returned
ask(question, team_name, client, gen, out1, fix, out2, interpretation) ==
    LET sql == strip_fences(gen.text)
        first == execute_sql(sql, out1)
        fixed == try_fix_sql(client, fix, out2)
    IN  IF ~client THEN AskError(question, team_name, <<>>, <<"Gemini AI not configured">>)
        ELSE IF ~gen.ok THEN AskError(question, team_name, <<>>, <<"Failed to generate SQL">>)
        ELSE IF first.success
        THEN AskAnswer(question, team_name, sql, first,
                       interpret_results(client, first.data, interpretation))
        ELSE IF fixed.success
        THEN AskAnswer(question, team_name, fixed.fixed_sql, fixed.result,
                       interpret_results(client, fixed.result.data, interpretation))
        ELSE AskError(question, team_name, sql,
                      <<"SQL execution failed:">> \o first.error)

\* the texts one ask passed to conn.execute, in order
ask_executed(client, gen, out1, fix) ==
    IF ~client \/ ~gen.ok THEN <<>>
    ELSE passed_to_connection(strip_fences(gen.text))
            \o (IF out1 = "error" /\ fix.ok
                THEN passed_to_connection(strip_fences(fix.text)) ELSE <<>>)

\* ------------------------------------------------ HTTP API (backend/main.py)
\* the team names a request path may carry: the two stored teams and one that
\* no series names
PathTeams == TeamArgs \cup {"Paper Rex"}

HTTPException(status_code, detail) ==
    [raised |-> "HTTPException", status_code |-> status_code, detail |-> detail]

\* a plausible slip: one except clause for everything, the 404 rewrapped
reraise_or_500_rewrapped(exc) == HTTPException(500, exc.raised)

\* get_scouting_data's handlers: except HTTPException: raise, and
\* except Exception as e: raise HTTPException(status_code=500, detail=str(e))
reraise_or_500(exc) ==
    IF exc.raised = "HTTPException" THEN exc ELSE HTTPException(500, exc.raised)

\* the handler of the endpoints that call the engine directly:
\* except Exception as e: raise HTTPException(status_code=500, detail=str(e))
wrap_500(r) == IF r.raised = "" THEN r ELSE HTTPException(500, r.raised)

\* every outcome of engine.generate_full_scouting_data with the storage failing
\* at `fault`
FullScoutingData(team_name, last_n_matches, fault) ==
    IF fault # "none" THEN {[raised |-> "QueryError"]}
    ELSE {generate_full_scouting_data(fault, ov, cp, pi, pl, rp, we, wk) :
            ov \in Overviews(team_name, last_n_matches),
            cp \in TeamCompositions(team_name, last_n_matches),
            pi \in PistolTendencies(team_name, last_n_matches),
            pl \in PlayerStats(team_name, last_n_matches),
            rp \in RoundPatterns(team_name, last_n_matches),
            we \in WeaponEconomies(team_name, last_n_matches),
            wk \in TeamWeaknesses(team_name, last_n_matches)}

NotCalled == [raised |-> "not called"]

\* the engine methods one GET /api/scout/{team_name} calls, in order
scout_engine_calls(team_name, teams_fault, teams) ==
    IF teams_fault \/ team_name \notin teams THEN <<"get_all_teams">>
    ELSE <<"get_all_teams", "generate_full_scouting_data">>

\* get_scouting_data from what get_all_teams did (raised, or returned teams)
\* and what generate_full_scouting_data did (data)
get_scouting_data(team_name, num_matches, teams_fault, teams, data) ==
    IF teams_fault THEN reraise_or_500([raised |-> "QueryError"])
    ELSE IF team_name \notin teams
    THEN reraise_or_500(HTTPException(404, "Team not found"))
    ELSE IF data.raised # "" THEN reraise_or_500(data)
    ELSE [raised |-> "",
          value |-> [team_name |-> team_name, num_matches |-> num_matches,
                     data |-> data.value]]

\* the endpoints that hand the path's team name to one engine method
DirectEndpoints ==
    {"overview", "players", "compositions", "weaknesses", "pistol"}

\* every outcome of the engine method behind a direct endpoint
EngineOutcomes(endpoint, team_name, num_matches) ==
    CASE endpoint = "overview" ->
            {[raised |-> "", value |-> v] : v \in Overviews(team_name, num_matches)}
      [] endpoint = "players" ->
            {[raised |-> "", value |-> v] : v \in PlayerStats(team_name, num_matches)}
      [] endpoint = "compositions" ->
            {[raised |-> "", value |-> v] : v \in TeamCompositions(team_name, num_matches)}
      [] endpoint = "pistol" ->
            {[raised |-> "", value |-> v] : v \in PistolTendencies(team_name, num_matches)}
      [] OTHER ->
            {IF w.raised = "" THEN [raised |-> "", value |-> w.value]
             ELSE [raised |-> w.raised] : w \in TeamWeaknesses(team_name, num_matches)}

\* ------------------------------------- the backend's event loop and connection
\* the endpoints of the backend that query the storage, and the number of
\* conn.execute calls the handler of each makes on the engine's one connection
\* (scout: get_all_teams and the seventeen queries of the assembled profile)
QueriesOf(endpoint) ==
    CASE endpoint = "teams" -> 1
      [] endpoint = "scout" -> 18
      [] endpoint = "overview" -> 2
      [] endpoint = "weaknesses" -> 7
      [] endpoint = "pistol" -> 1
      [] OTHER -> 1

ServedEndpoints == {"teams", "scout", "overview", "weaknesses", "pistol", "h2h"}

Requests == 1..MaxRequests

NoTask == [endpoint |-> "none", status |-> "absent", executed |-> 0, in_flight |-> FALSE]

\* the requests whose handler body has been entered and has not returned
InHandler(tasks) == {r \in Requests : tasks[r].status = "running"}

\* a plausible slip: the handlers declared with def, each run in a worker
\* thread whatever the others are doing
CanEnterHandlerThreaded(tasks) == TRUE

\* every handler is an async def whose body holds no await: the loop enters a
\* handler body only when no other body is being run
CanEnterHandler(tasks) == InHandler(tasks) = {}

\* ------------------------------------------------------------ GeminiAnalyzer
\* self.chat is None, or a chat session: `received` is the team whose scouting
\* data the session was sent and took, "none" when it took none
NoChat == [created |-> FALSE, received |-> "none"]

NothingSent == [kind |-> "none", session |-> NoChat, team |-> "none"]

\* chat.send_message(...) on the current session: what was sent, on which
\* session, naming which team
SentOn(a, kind) == [kind |-> kind, session |-> a.chat, team |-> a.current_team_name]

\* set_team_context: the two fields are assigned first; without a client the
\* method returns; chats.create may raise (self.chat keeps the session it
\* had), and so may sending the context to the new session
set_team_context(a, team_name, create_ok, send_ok) ==
    LET named == [a EXCEPT !.current_team_name = team_name,
                           !.current_team_data = team_name]
        fresh == [created |-> TRUE, received |-> "none"]
        loaded == [created |-> TRUE, received |-> team_name]
    IN  IF ~a.client THEN named
        ELSE IF ~create_ok THEN named
        ELSE [named EXCEPT !.chat = IF send_ok THEN loaded ELSE fresh,
                           !.sent = [kind |-> "context", session |-> fresh,
                                     team |-> team_name]]

\* generate_full_report and ask_question: three early returns, then the
\* prompt goes to self.chat
may_send_prompt(a) ==
    a.client /\ a.current_team_data # "none" /\ a.chat.created

\* get_specific_analysis: an unknown type, a missing client or a missing chat
\* return early; current_team_data is not looked at
may_send_analysis(a, analysis_type) ==
    analysis_type # "unknown" /\ a.client /\ a.chat.created

AnalysisTypes == {"map_veto", "unknown"}

\* ----------------------------------------- spacing of the text-generation calls
\* time in whole seconds; a span of MIN_API_INTERVAL or more is kept as
\* MIN_API_INTERVAL
Cap(n) == IF n >= MIN_API_INTERVAL THEN MIN_API_INTERVAL ELSE n

\* how long one call of the text-generation API may take, and one conn.execute
ApiDurations == {1, 4}
ExecDurations == {0, 1}

\* what generate_sql_from_question may meet: an answer, an error, or a 429
\* followed by a retry that answers or fails
GenerationKinds == {"ok", "error", "retry_ok", "retry_error"}

GenerationReply(kind) ==
    IF kind \in {"ok", "retry_ok"}
    THEN [ok |-> TRUE, text |-> <<"select", "*", "from", "gamez">>]
    ELSE [ok |-> FALSE, text |-> <<>>]

\* the sleep before the first call: if elapsed < MIN_API_INTERVAL:
\* time.sleep(MIN_API_INTERVAL - elapsed)
throttle_wait(since_mark) ==
    IF since_mark < MIN_API_INTERVAL THEN MIN_API_INTERVAL - since_mark ELSE 0

\* the calls of the text-generation API one ask makes, in order: the
\* generation, its retry after a 429, the repair when the first execution
\* failed, the interpretation when there are rows to interpret
api_calls(client, kind, out1, fix_ok, out2) ==
    IF ~client THEN <<>>
    ELSE <<"generate">>
            \o (IF kind \in {"retry_ok", "retry_error"} THEN <<"retry">> ELSE <<>>)
            \o (IF kind \in {"ok", "retry_ok"} /\ out1 = "error" THEN <<"fix">> ELSE <<>>)
            \o (IF kind \in {"ok", "retry_ok"}
                    /\ (out1 = "rows" \/ (out1 = "error" /\ fix_ok /\ out2 = "rows"))
                THEN <<"interpret">> ELSE <<>>)

\* the seconds between the start of a call and the start of the call before it
\* (for the generation: the last call of the ask before): only the generation
\* waits for LAST_API_CALL; the retry follows a sleep; the repair and the
\* interpretation start when the execution before them is over
api_gap(c, api, d, e) ==
    CASE c = "generate" -> Cap(api.since_start + throttle_wait(api.since_mark))
      [] c = "retry" -> Cap(d + RetrySleep)
      [] OTHER -> Cap(d + e)

\* the module's clock state after the ask: the seconds since LAST_API_CALL was
\* assigned (only a generation that answers assigns it) and since the last
\* call started
after_ask(api, cs, kind, out1, fix_ok, d, e) ==
    LET execs == IF kind \in {"ok", "retry_ok"}
                 THEN 1 + (IF out1 = "error" /\ fix_ok THEN 1 ELSE 0) ELSE 0
        later == Len(SelectSeq(cs, LAMBDA c : c \in {"fix", "interpret"}))
        total == throttle_wait(api.since_mark) + Len(cs) * d + execs * e
                    + (IF kind \in {"retry_ok", "retry_error"} THEN RetrySleep ELSE 0)
        tail == IF cs # <<>> /\ cs[Len(cs)] # "interpret" /\ execs > 0 THEN d + e ELSE d
    IN  [since_mark |-> IF cs = <<>> THEN api.since_mark
                        ELSE IF kind \in {"ok", "retry_ok"}
                        THEN Cap(execs * e + later * d)
                        ELSE Cap(api.since_mark + total),
         since_start |-> IF cs = <<>> THEN api.since_start ELSE Cap(tail),
         gaps |-> [i \in DOMAIN cs |-> api_gap(cs[i], api, d, e)],
         calls |-> cs]

\* ---------------------------------------------- PostgreSQL engine: ask
\* the keywords an upper-case word holds as a substring
KeywordsIn(w) ==
    CASE w = "UPDATED_AT" -> {"UPDATE"}
      [] w \in WriteTokens -> {w}
      [] OTHER -> {}

\* a plausible slip: the keywords looked for as whole words
forbidden_keywords_whole_words(sql) ==
    {Upper(sql[i]) : i \in DOMAIN sql} \cap WriteTokens

\* the dangerous keywords d with d in sql_upper
forbidden_keywords(sql) == UNION {KeywordsIn(Upper(sql[i])) : i \in DOMAIN sql}

\* sql_upper.startswith("SELECT")
starts_with_select(sql) == sql # <<>> /\ Upper(sql[1]) = "SELECT"

PgModelTexts ==
    {<<"FENCE_SQL", "SELECT", "*", "FROM", "series", "FENCE">>,
     <<"select", "*", "from", "gamez">>,
     <<"select", "updated_at", "from", "series">>,
     <<"with", "t", "select", "*", "from", "t">>,
     <<"drop", "table", "series">>,
     <<"select", "1", ";", "Delete", "FROM", "games">>}

PgModelReplies ==
    {[ok |-> FALSE, text |-> <<>>]} \cup {[ok |-> TRUE, text |-> t] : t \in PgModelTexts}

\* the fixed statement of get_all_teams
AllTeamsQuery == <<"SELECT", "DISTINCT", "team_name", "FROM", "series">>

\* generate_sql_from_question: without a client it returns at once; without a
\* team name it first looks the teams up in the database (outside the try: an
\* error of that query leaves the method); the answer must start with SELECT
\* and hold no dangerous keyword
pg_generate_sql(team_name, client, lookup_ok, reply) ==
    LET sql == strip_fences(reply.text)
        looked == IF team_name = NULL THEN <<AllTeamsQuery>> ELSE <<>>
    IN  IF ~client
        THEN [raised |-> "", success |-> FALSE, sql |-> <<>>, sent |-> <<>>,
              error |-> "AI not configured"]
        ELSE IF team_name = NULL /\ ~lookup_ok
        THEN [raised |-> "DatabaseError", sent |-> looked]
        ELSE IF ~reply.ok
        THEN [raised |-> "", success |-> FALSE, sql |-> <<>>, sent |-> looked,
              error |-> "generation failed"]
        ELSE IF ~starts_with_select(sql)
        THEN [raised |-> "", success |-> FALSE, sql |-> sql, sent |-> looked,
              error |-> "Generated query is not a SELECT statement"]
        ELSE IF forbidden_keywords(sql) # {}
        THEN [raised |-> "", success |-> FALSE, sql |-> sql, sent |-> looked,
              error |-> "Query contains forbidden keyword"]
        ELSE [raised |-> "", success |-> TRUE, sql |-> sql, sent |-> looked,
              error |-> NULL]

\* ask: the value returned (or the error raised), the statements sent to the
\* database and those handed to execute_query
pg_ask(question, team_name, client, lookup_ok, reply, outcome) ==
    LET g == pg_generate_sql(team_name, client, lookup_ok, reply)
    IN  IF g.raised # "" THEN [raised |-> g.raised, sent |-> g.sent, queried |-> <<>>]
        ELSE IF ~g.success
        THEN [raised |-> "", sent |-> g.sent, queried |-> <<>>,
              value |-> [question |-> question, sql |-> g.sql, error |-> g.error,
                         results |-> NoResults]]
        ELSE IF outcome = "error"
        THEN [raised |-> "", sent |-> g.sent \o <<g.sql>>, queried |-> <<g.sql>>,
              value |-> [question |-> question, sql |-> g.sql, error |-> "error",
                         results |-> NoResults]]
        ELSE [raised |-> "", sent |-> g.sent \o <<g.sql>>, queried |-> <<g.sql>>,
              value |-> [question |-> question, sql |-> g.sql, error |-> NULL,
                         results |-> [none |-> FALSE, count |-> IF outcome = "rows" THEN 1 ELSE 0]]]

\* ------------------------------------- PostgreSQL engine: get_team_overview
\* the series WHERE team1_name ILIKE %s OR team2_name ILIKE %s
pg_team_series(team_name) ==
    {i \in DOMAIN series :
        ILike(series[i].team1_name, team_name) \/ ILike(series[i].team2_name, team_name)}

\* SELECT team1_id ... WHERE team1_name ILIKE %s UNION SELECT team2_id ...
pg_team_ids(team_name) ==
    {series[i].team1_id : i \in {j \in DOMAIN series : ILike(series[j].team1_name, team_name)}}
        \cup
    {series[i].team2_id : i \in {j \in DOMAIN series : ILike(series[j].team2_name, team_name)}}

\* win_query: COUNT(*) and the SUM of the CASE, which is NULL over no row; a
\* NULL winner_team_id is IN nothing
pg_win_query(team_name) ==
    LET rows == pg_team_series(team_name)
        won == {i \in rows : series[i].winner_team_id # NULL
                                /\ series[i].winner_team_id \in pg_team_ids(team_name)}
    IN  [total_series |-> Cardinality(rows),
         wins |-> IF rows = {} THEN NullNum ELSE Cardinality(won)]

\* map_query: the team's rows of v_team_map_stats, ORDER BY games DESC
pg_map_query(team_name) ==
    LET rows == {i \in DOMAIN v_team_map_stats :
                    ILike(v_team_map_stats[i].team_name, team_name)}
    IN  {[k \in DOMAIN order |-> v_team_map_stats[order[k]]] :
            order \in OrderedLimit(rows, [i \in rows |-> v_team_map_stats[i].games],
                                   Cardinality(rows))}

\* recent_query: the five series started last, each with the opponent, W or L
\* and the stored score
pg_recent_query(team_name) ==
    LET rows == pg_team_series(team_name)
    IN  {[k \in DOMAIN order |->
            LET s == series[order[k]]
            IN  [opponent |-> IF ILike(s.team1_name, team_name)
                              THEN s.team2_name ELSE s.team1_name,
                 result |-> IF s.winner_team_id # NULL
                                /\ s.winner_team_id \in pg_team_ids(team_name)
                            THEN "W" ELSE "L",
                 score |-> <<s.team1_score, s.team2_score>>]] :
            order \in OrderedLimit(rows, [i \in rows |-> series[i].started_at], 5)}

\* total = win_data['total_series'] or 1; wins = win_data['wins'] or 0
pg_get_team_overview(team_name, map_stats, recent_series) ==
    LET win_data == pg_win_query(team_name)
        total == IF win_data.total_series = 0 THEN 1 ELSE win_data.total_series
        wins == IF win_data.wins = NullNum \/ win_data.wins = 0 THEN 0 ELSE win_data.wins
    IN  [win_rate |-> PyRound(1000 * wins, total),
         series_record |-> <<wins, total - wins>>,
         map_stats |-> map_stats,
         recent_series |-> recent_series]

\* ------------------------------------------------- Streamlit app (app.py)
\* st.session_state after the first lines of the script: scouting data and a
\* report are named by the team they were generated for, "none" for None
FreshSession ==
    [scouting_data |-> "none", report |-> "none", chat_history |-> <<>>,
     selected_team |-> "none"]

\* one run of the script from the widgets' values: the selectbox, the Generate
\* Report button, the question (typed, or set by a quick-question button), and
\* whether generate_full_scouting_data returns. An exception ends the run in
\* main's except clause with the session as it was. The chat tab is drawn only
\* when there is scouting data; it passes the stored data and the selectbox's
\* team to chat_about_team and appends the exchange.
script_run(ss, selected_team, generate_btn, data_ok, user_question) ==
    LET generated == IF generate_btn
                     THEN [ss EXCEPT !.scouting_data = selected_team,
                                     !.report = selected_team,
                                     !.selected_team = selected_team,
                                     !.chat_history = <<>>]
                     ELSE ss
        asked == [team_data |-> generated.scouting_data, team_name |-> selected_team]
    IN  IF generate_btn /\ ~data_ok THEN [session |-> ss, chat_calls |-> <<>>]
        ELSE IF generated.scouting_data = "none" \/ ~user_question
        THEN [session |-> generated, chat_calls |-> <<>>]
        ELSE [session |-> [generated EXCEPT !.chat_history = Append(@, asked)],
              chat_calls |-> <<asked>>]

\* the run a click on Clear Chat History starts: the button is drawn only under
\* a history that is not empty; it empties the history and st.rerun() runs the
\* script once more with the widgets as they are
clear_run(ss, selected_team, user_question) ==
    LET first == script_run(ss, selected_team, FALSE, TRUE, user_question)
        again == script_run([first.session EXCEPT !.chat_history = <<>>],
                            selected_team, FALSE, TRUE, user_question)
    IN  IF first.session.chat_history = <<>> THEN first
        ELSE [session |-> again.session,
              chat_calls |-> first.chat_calls \o again.chat_calls]

\* ------------------------------------------------------------ storage states
\* who plays whom, as (team1_name, team2_name)
Matchups == {<<"Sentinels", "Cloud9">>, <<"Cloud9", "Sentinels">>, <<"Cloud9", "LOUD">>}
\* how a series stands: won by its team1, by its team2, finished with no
\* winner id recorded, or not finished yet
Outcomes == {"team1", "team2", "nowinner", "unfinished"}
WindowSizes == (1..MaxN) \cup {DefaultLastN}

SeriesRow(i, m, o, t) ==
    [series_id |-> i,
     tournament_name |-> "VCT",
     team1_name |-> m[1], team2_name |-> m[2],
     team1_id |-> TeamIdOf(m[1]), team2_id |-> TeamIdOf(m[2]),
     winner_team_id |-> CASE o = "team1" -> TeamIdOf(m[1])
                          [] o = "team2" -> TeamIdOf(m[2])
                          [] OTHER -> NULL,
     team1_score |-> CASE o = "team1" -> 2 [] o = "team2" -> 1 [] OTHER -> 0,
     team2_score |-> CASE o = "team1" -> 1 [] o = "team2" -> 2 [] OTHER -> 0,
     started_at |-> t,
     finished |-> (o # "unfinished")]

\* start times of len series: all different, or equal two by two
StartTimes(len) == {[i \in 1..len |-> i], [i \in 1..len |-> (i + 1) \div 2]}

\* a few series of any matchup and outcome
SeriesSmall ==
    UNION {{[i \in 1..len |-> SeriesRow(i, m[i], o[i], t[i])] :
                m \in [1..len -> Matchups], o \in [1..len -> Outcomes], t \in StartTimes(len)} :
           len \in 0..MaxSeries}

\* a run of finished series of Sentinels, each won or lost, sides alternating
SeriesRun ==
    {[i \in 1..ScenarioSeries |->
        SeriesRow(i, IF i % 2 = 1 THEN <<"Sentinels", "Cloud9">> ELSE <<"Cloud9", "Sentinels">>,
                  o[i], i)] :
        o \in [1..ScenarioSeries -> {"team1", "team2"}]}

NoCall == [op |-> "none"]
NoFrame == [op |-> "none"]
NoResult == [raised |-> "none"]

InitSeries ==
    /\ series \in SeriesSmall \cup SeriesRun
    /\ games = <<>> /\ game_compositions = <<>> /\ rounds = <<>>
    /\ player_economy = <<>> /\ weapon_kills = <<>> /\ NoViews
    /\ call = NoCall /\ frame = NoFrame /\ result = NoResult /\ NoServices

\* -- games and compositions
MapNames == {"ascent", "bind"}
AgentOfSlot(k) == CASE k = 1 -> "jett" [] k = 2 -> "omen" [] OTHER -> "sova"
RoleOfAgent(a) ==
    CASE a = "jett" -> "Duelist" [] a = "omen" -> "Controller" [] OTHER -> "Initiator"
PlayerName(team, k) ==
    CASE team = "Sentinels" /\ k = 1 -> "TenZ"
      [] team = "Sentinels" /\ k = 2 -> "zekken"
      [] team = "Sentinels" -> "johnqt"
      [] team = "Cloud9" /\ k = 1 -> "Xeppaa"
      [] team = "Cloud9" /\ k = 2 -> "OXY"
      [] team = "Cloud9" -> "vanity"
      [] OTHER -> "saadhak"

\* game i of matchup m on a map, won by its team1 or its team2, 13 rounds to 8;
\* two games to a series
GameRow(i, map, m, w) ==
    [game_id |-> i, series_id |-> (i + 1) \div 2, map_name |-> map,
     team1_id |-> TeamIdOf(m[1]), team1_name |-> m[1],
     team2_id |-> TeamIdOf(m[2]), team2_name |-> m[2],
     team1_score |-> IF w = "team1" THEN 13 ELSE 8,
     team2_score |-> IF w = "team1" THEN 8 ELSE 13,
     winner_team_id |-> IF w = "team1" THEN TeamIdOf(m[1]) ELSE TeamIdOf(m[2])]

\* the composition rows of the games gs: per game and team, one row per player
\* of a roster of r
CompRows(gs, r) ==
    [x \in 1..(Len(gs) * 2 * r) |->
        LET g == gs[((x - 1) \div (2 * r)) + 1]
            y == (x - 1) % (2 * r)
            team == IF y \div r = 0 THEN g.team1_name ELSE g.team2_name
            k == (y % r) + 1
        IN  [game_id |-> g.game_id, map_name |-> g.map_name,
             team_id |-> TeamIdOf(team), team_name |-> team,
             agent |-> AgentOfSlot(k), agent_role |-> RoleOfAgent(AgentOfSlot(k)),
             player_name |-> PlayerName(team, k)]]

\* the series the games gs belong to, all finished, started in order
SeriesOfGames(gs) ==
    [k \in 1..((Len(gs) + 1) \div 2) |-> SeriesRow(k, <<"Sentinels", "Cloud9">>, "team1", k)]

\* Sentinels are team1 of the odd games and team2 of the even ones
GamesAny ==
    UNION {{[i \in 1..len |->
                GameRow(i, map[i],
                        IF i % 2 = 1 THEN <<"Sentinels", "Cloud9">> ELSE <<"Cloud9", "Sentinels">>,
                        w[i])] :
                map \in [1..len -> MapNames],
                w \in [1..len -> {"team1", "team2"}]} :
           len \in 0..MaxGames}

InitGames ==
    /\ games \in GamesAny
    /\ \E r \in 1..MaxRoster : game_compositions = CompRows(games, r)
    /\ series = SeriesOfGames(games)
    /\ rounds = <<>> /\ player_economy = <<>> /\ weapon_kills = <<>> /\ NoViews
    /\ call = NoCall /\ frame = NoFrame /\ result = NoResult /\ NoServices

\* -- a map pool of two maps
\* na games on ascent, the first wa of them won by Sentinels, then nb games on
\* bind, all lost; Sentinels are team1 throughout
MapPoolGames(na, wa, nb) ==
    [i \in 1..(na + nb) |->
        GameRow(i, IF i <= na THEN "ascent" ELSE "bind", <<"Sentinels", "Cloud9">>,
                IF i <= wa THEN "team1" ELSE "team2")]

\* rosters of one: every game has one composition row per team
InitMapPool ==
    /\ \E na \in 0..MaxMapGames, nb \in 0..MaxMapGames :
       \E wa \in 0..na : games = MapPoolGames(na, wa, nb)
    /\ game_compositions = CompRows(games, 1)
    /\ series = SeriesOfGames(games)
    /\ rounds = <<>> /\ player_economy = <<>> /\ weapon_kills = <<>> /\ NoViews
    /\ call = NoCall /\ frame = NoFrame /\ result = NoResult /\ NoServices

\* -- end-of-game player totals
\* [kills, deaths, assists] of one player in one game
StatLines == {<<1, 0, 1>>, <<0, 1, 0>>, <<2, 1, 1>>}

FixtureGames(len) ==
    [i \in 1..len |-> GameRow(i, "ascent", <<"Sentinels", "Cloud9">>, "team1")]

\* per game: a row for each of the two Sentinels players and one for a Cloud9
\* player; a Sentinels player has a usual line (base) and the line of the latest
\* game (last)
EconomyRows(len, base, last) ==
    [x \in 1..(len * 3) |->
        LET i == ((x - 1) \div 3) + 1
            k == ((x - 1) % 3) + 1
            team == IF k = 3 THEN "Cloud9" ELSE "Sentinels"
            st == IF k = 3 THEN <<1, 1, 1>> ELSE IF i = len THEN last[k] ELSE base[k]
        IN  [game_id |-> i,
             player_name |-> PlayerName(team, IF k = 3 THEN 1 ELSE k),
             team_id |-> TeamIdOf(team),
             agent |-> AgentOfSlot(IF k = 3 THEN 1 ELSE k),
             total_kills |-> st[1], total_deaths |-> st[2], total_assists |-> st[3]]]

InitPlayers ==
    /\ \E len \in 0..MaxPlayerGames :
        /\ games = FixtureGames(len)
        /\ \E base \in [1..2 -> StatLines], last \in [1..2 -> StatLines] :
                player_economy = EconomyRows(len, base, last)
    /\ game_compositions = CompRows(games, 2)
    /\ series = SeriesOfGames(games)
    /\ rounds = <<>> /\ weapon_kills = <<>> /\ NoViews
    /\ call = NoCall /\ frame = NoFrame /\ result = NoResult /\ NoServices

\* -- pistol rounds
\* three games of three series: Sentinels against Cloud9 on ascent and on bind,
\* Cloud9 against LOUD on haven
PistolGames ==
    <<[GameRow(1, "ascent", <<"Sentinels", "Cloud9">>, "team1") EXCEPT !.series_id = 1],
      [GameRow(2, "bind", <<"Sentinels", "Cloud9">>, "team2") EXCEPT !.series_id = 2],
      [GameRow(3, "haven", <<"Cloud9", "LOUD">>, "team1") EXCEPT !.series_id = 3]>>

PistolSeries ==
    <<SeriesRow(1, <<"Sentinels", "Cloud9">>, "team1", 1),
      SeriesRow(2, <<"Sentinels", "Cloud9">>, "team2", 2),
      SeriesRow(3, <<"Cloud9", "LOUD">>, "team1", 3)>>

RoundRow(i, game, attacker, defender, winner, pistol) ==
    [round_id |-> i, game_id |-> game, series_id |-> game, round_number |-> i,
     attacker_team_id |-> TeamIdOf(attacker), defender_team_id |-> TeamIdOf(defender),
     winner_team_id |-> TeamIdOf(winner),
     win_type |-> "opponentEliminated", bomb_planted |-> FALSE,
     is_pistol_round |-> pistol]

\* aw pistol rounds Sentinels attack and win, al they attack and lose, dw they
\* defend and win, dl they defend and lose, spread over the two games; then a
\* round that is no pistol round, and a pistol round of Cloud9 against LOUD
PistolRounds(aw, al, dw, dl) ==
    LET n == aw + al + dw + dl
    IN  [i \in 1..(n + 2) |->
            IF i = n + 1 THEN RoundRow(i, 1, "Sentinels", "Cloud9", "Sentinels", FALSE)
            ELSE IF i = n + 2 THEN RoundRow(i, 3, "Cloud9", "LOUD", "Cloud9", TRUE)
            ELSE LET game == IF i % 2 = 1 THEN 1 ELSE 2
                 IN  IF i <= aw THEN RoundRow(i, game, "Sentinels", "Cloud9", "Sentinels", TRUE)
                     ELSE IF i <= aw + al THEN RoundRow(i, game, "Sentinels", "Cloud9", "Cloud9", TRUE)
                     ELSE IF i <= aw + al + dw THEN RoundRow(i, game, "Cloud9", "Sentinels", "Sentinels", TRUE)
                     ELSE RoundRow(i, game, "Cloud9", "Sentinels", "Cloud9", TRUE)]

\* up to MaxPistols pistol rounds on the attack, at most one, lost, on the defense
InitRounds ==
    /\ \E aw \in 0..MaxPistols, al \in 0..MaxPistols, dl \in 0..1 :
        /\ aw + al <= MaxPistols
        /\ rounds = PistolRounds(aw, al, 0, dl)
    /\ games = PistolGames
    /\ series = PistolSeries
    /\ game_compositions = CompRows(games, 1)
    /\ player_economy = <<>> /\ weapon_kills = <<>> /\ NoViews
    /\ call = NoCall /\ frame = NoFrame /\ result = NoResult /\ NoServices

\* -- rounds with the spike planted
\* 20 planted rounds defended, as many as one window of one match fetches, with
\* 6, 7 or 8 of them won: conversion rates of 30.0, 35.0 and 40.0
RetakeScenarios == {[situations |-> 20, wins |-> w] : w \in {6, 7, 8}}

\* Sentinels defend nd rounds with the spike planted and win wd of them, attack
\* na such rounds and win wa of them, spread over the two games against Cloud9;
\* then a round they defend and lose without a plant
PlantRounds(nd, wd, na, wa) ==
    [i \in 1..(nd + na + 1) |->
        LET game == IF i % 2 = 1 THEN 1 ELSE 2
        IN  IF i <= nd
            THEN [RoundRow(i, game, "Cloud9", "Sentinels",
                           IF i <= wd THEN "Sentinels" ELSE "Cloud9", FALSE)
                    EXCEPT !.bomb_planted = TRUE,
                           !.win_type = IF i <= wd THEN "bombDefused" ELSE "bombExploded"]
            ELSE IF i <= nd + na
            THEN [RoundRow(i, game, "Sentinels", "Cloud9",
                           IF i <= nd + wa THEN "Sentinels" ELSE "Cloud9", FALSE)
                    EXCEPT !.bomb_planted = TRUE,
                           !.win_type = IF i <= nd + wa THEN "bombExploded" ELSE "bombDefused"]
            ELSE RoundRow(i, 1, "Cloud9", "Sentinels", "Cloud9", FALSE)]

InitPlants ==
    /\ \/ \E nd \in 0..MaxPlants, na \in 0..1 :
          \E wd \in 0..nd, wa \in 0..na : rounds = PlantRounds(nd, wd, na, wa)
       \/ \E sc \in RetakeScenarios : rounds = PlantRounds(sc.situations, sc.wins, 0, 0)
    /\ games = PistolGames
    /\ series = PistolSeries
    /\ game_compositions = CompRows(games, 1)
    /\ player_economy = <<>> /\ weapon_kills = <<>> /\ NoViews
    /\ call = NoCall /\ frame = NoFrame /\ result = NoResult /\ NoServices

\* -- the views of the PostgreSQL engine
ViewMapOf(k) == CASE k = 1 -> "ascent" [] k = 2 -> "bind" [] OTHER -> "haven"

\* up to MaxViewRows rows per view: a map row per map, of Sentinels (the first)
\* or of Sentinels or Cloud9 Blue (the others), with 2 or 3 games and a win
\* rate of 30.0, 35.0 or 45.0; a pistol row for the attack, then for the
\* defense, of Sentinels, with a win rate of 30.0, 40.0 or 50.0
InitViews ==
    /\ \E len \in 0..MaxViewRows :
       \E team \in [1..len -> {"Sentinels", "Cloud9 Blue"}],
          played \in [1..len -> {2, 3}],
          rate \in [1..len -> {300, 350, 450}] :
            /\ \A k \in 1..len : k = 1 => team[k] = "Sentinels"
            /\ v_team_map_stats =
                    [k \in 1..len |-> [team_name |-> team[k], map |-> ViewMapOf(k),
                                       games |-> played[k], win_rate |-> rate[k]]]
    /\ \E len \in 0..MaxViewRows :
       \E rate \in [1..len -> {300, 400, 500}] :
            v_pistol_performance =
                [k \in 1..len |-> [team_name |-> "Sentinels", is_attack |-> (k % 2 = 1),
                                   win_rate |-> rate[k]]]
    /\ series = <<>> /\ games = <<>> /\ game_compositions = <<>> /\ rounds = <<>>
    /\ player_economy = <<>> /\ weapon_kills = <<>>
    /\ call = NoCall /\ frame = NoFrame /\ result = NoResult /\ NoServices

\* every storage the weakness heuristic of either engine is run on
InitFindings == InitPlayers \/ InitPlants \/ InitViews

\* -- a small league for whole profiles
\* two series of Sentinels against Cloud9, the first won by Sentinels, started
\* one after the other or at the same time; the two games of the first series
\* with their rosters of two, every Sentinels player with the same totals
InitProfile ==
    /\ \E o \in Outcomes, t \in {1, 2} :
            series = <<SeriesRow(1, <<"Sentinels", "Cloud9">>, "team1", 1),
                       SeriesRow(2, <<"Cloud9", "Sentinels">>, o, t)>>
    /\ games = FixtureGames(2)
    /\ game_compositions = CompRows(games, 2)
    /\ \E st \in StatLines :
            player_economy = EconomyRows(2, [k \in 1..2 |-> st], [k \in 1..2 |-> st])
    /\ rounds = <<>> /\ weapon_kills = <<>> /\ NoViews
    /\ call = NoCall /\ frame = NoFrame /\ result = NoResult /\ NoServices

\* ------------------------------------------------------------------ actions
GetTeamOverview ==
    \E team_name \in TeamArgs, last_n_matches \in WindowSizes :
    \E rs \in series_query(team_name, last_n_matches), ms \in map_query(team_name) :
        /\ call' = [op |-> "get_team_overview", team_name |-> team_name,
                    last_n_matches |-> last_n_matches]
        /\ frame' = [op |-> "get_team_overview", recent_series |-> rs, map_stats |-> ms]
        /\ result' = [raised |-> "", value |->
                        get_team_overview(team_name, last_n_matches, rs, ms)]
        /\ UNCHANGED <<tables, services>>

GetPistolTendencies ==
    \E team_name \in TeamArgs, last_n_matches \in WindowSizes :
    \E ps \in pistol_query(team_name, last_n_matches) :
        /\ call' = [op |-> "get_pistol_tendencies", team_name |-> team_name,
                    last_n_matches |-> last_n_matches]
        /\ frame' = [op |-> "get_pistol_tendencies", pistol_stats |-> ps]
        /\ result' = [raised |-> "", value |->
                        get_pistol_tendencies(team_name, last_n_matches, ps)]
        /\ UNCHANGED <<tables, services>>

GetPlayerStats ==
    \E team_name \in TeamArgs, last_n_matches \in WindowSizes :
    \E ps \in player_query(team_name, last_n_matches),
       ap \in agent_pool_query(team_name, last_n_matches) :
        /\ call' = [op |-> "get_player_stats", team_name |-> team_name,
                    last_n_matches |-> last_n_matches]
        /\ frame' = [op |-> "get_player_stats", player_stats |-> ps, pools_by_player |-> ap]
        /\ result' = [raised |-> "", value |->
                        get_player_stats(team_name, last_n_matches, ps, ap)]
        /\ UNCHANGED <<tables, services>>

GetRoundPatterns ==
    \E team_name \in TeamArgs, last_n_matches \in WindowSizes :
    \E rp \in round_query(team_name, last_n_matches),
       pp \in post_plant_query(team_name, last_n_matches) :
        /\ call' = [op |-> "get_round_patterns", team_name |-> team_name,
                    last_n_matches |-> last_n_matches]
        /\ frame' = [op |-> "get_round_patterns", round_patterns |-> rp, post_plant |-> pp]
        /\ result' = [raised |-> "", value |->
                        get_round_patterns(team_name, last_n_matches, rp, pp)]
        /\ UNCHANGED <<tables, services>>

GetTeamWeaknesses ==
    \E team_name \in TeamArgs, last_n_matches \in WindowSizes :
    \E w \in TeamWeaknesses(team_name, last_n_matches) :
        /\ call' = [op |-> "get_team_weaknesses", team_name |-> team_name,
                    last_n_matches |-> last_n_matches]
        /\ frame' = [op |-> "get_team_weaknesses", weaknesses |-> w.weaknesses,
                     overview |-> w.overview, pistol |-> w.pistol,
                     players |-> w.players, patterns |-> w.patterns]
        /\ result' = IF w.raised = "" THEN [raised |-> "", value |-> w.value]
                     ELSE [raised |-> w.raised]
        /\ UNCHANGED <<tables, services>>

GenerateFullScoutingData ==
    \E team_name \in TeamArgs, last_n_matches \in WindowSizes, fault \in FaultPoints :
        /\ call' = [op |-> "generate_full_scouting_data", team_name |-> team_name,
                    last_n_matches |-> last_n_matches, fault |-> fault]
        /\ frame' = [op |-> "generate_full_scouting_data",
                     started |-> CallsStarted(fault),
                     assembled |-> IF fault = "none" THEN Range(FullCalls)
                                   ELSE SectionsBefore(fault)]
        /\ IF fault # "none"
           THEN result' = [raised |-> "QueryError"]
           ELSE \E ov \in Overviews(team_name, last_n_matches),
                   cp \in TeamCompositions(team_name, last_n_matches),
                   pi \in PistolTendencies(team_name, last_n_matches),
                   pl \in PlayerStats(team_name, last_n_matches),
                   rp \in RoundPatterns(team_name, last_n_matches),
                   we \in WeaponEconomies(team_name, last_n_matches),
                   wk \in TeamWeaknesses(team_name, last_n_matches) :
                    result' = generate_full_scouting_data(fault, ov, cp, pi, pl, rp, we, wk)
        /\ UNCHANGED <<tables, services>>

NextOverview == GetTeamOverview

SpecOverview == InitSeries /\ [][NextOverview]_vars

GetHeadToHead ==
    \E team1 \in TeamArgs, team2 \in TeamArgs :
    \E matches \in h2h_query(team1, team2) :
        /\ call' = [op |-> "get_head_to_head", team1 |-> team1, team2 |-> team2]
        /\ frame' = [op |-> "get_head_to_head", matches |-> matches]
        /\ result' = [raised |-> "", value |-> get_head_to_head(team1, team2, matches)]
        /\ UNCHANGED <<tables, services>>

NextHeadToHead == GetHeadToHead

SpecHeadToHead == InitSeries /\ [][NextHeadToHead]_vars

NextMaps == GetTeamOverview \/ GetTeamWeaknesses

SpecMaps == InitGames /\ [][NextMaps]_vars

SpecMapPool == InitMapPool /\ [][NextMaps]_vars

NextPlants == GetRoundPatterns \/ GetTeamWeaknesses

SpecPlants == InitPlants /\ [][NextPlants]_vars

PostgresGetTeamWeaknesses ==
    \E team_name \in TeamArgs :
    \E wm \in postgres_map_query(team_name), ps \in postgres_pistol_query(team_name) :
        /\ call' = [op |-> "postgres.get_team_weaknesses", team_name |-> team_name]
        /\ frame' = [op |-> "postgres.get_team_weaknesses", weak_maps |-> wm,
                     pistol_stats |-> ps,
                     weaknesses |-> postgres_get_team_weaknesses(team_name, wm, ps).weaknesses]
        /\ result' = [raised |-> "", value |-> postgres_get_team_weaknesses(team_name, wm, ps)]
        /\ UNCHANGED <<tables, services>>

NextFindings == GetTeamWeaknesses \/ PostgresGetTeamWeaknesses

SpecFindings == InitFindings /\ [][NextFindings]_vars

NextPlayers == GetPlayerStats \/ GetTeamWeaknesses

SpecPlayers == InitPlayers /\ [][NextPlayers]_vars

NextPistol == GetPistolTendencies \/ GetTeamWeaknesses

SpecPistol == InitRounds /\ [][NextPistol]_vars

NextProfile == GenerateFullScoutingData

SpecProfile == InitProfile /\ [][NextProfile]_vars

Ask ==
    \E team_name \in {NULL, "Sentinels"}, client \in BOOLEAN,
       gen \in ModelReplies, fix \in ModelReplies, interpretation \in {NULL, "analysis"} :
    \E out1 \in ConnOutcomes(strip_fences(gen.text)), out2 \in ConnOutcomes(strip_fences(fix.text)) :
        /\ call' = [op |-> "ask", question |-> "question", team_name |-> team_name]
        /\ frame' = [op |-> "ask", client |-> client,
                     executed |-> ask_executed(client, gen, out1, fix),
                     gen |-> gen, out1 |-> out1, fix |-> fix, out2 |-> out2]
        /\ result' = [raised |-> "", value |->
                        ask("question", team_name, client, gen, out1, fix, out2,
                            interpretation)]
        /\ UNCHANGED <<tables, services>>

NextAsk == Ask

\* the storage behind the service: one the profile is built from, the two
\* series started together
InitService ==
    /\ InitProfile
    /\ series[2].started_at = 1 /\ series[2].winner_team_id = "id_c9"

SpecAsk == InitService /\ [][NextAsk]_vars

ApiGetScoutingData ==
    \E team_name \in PathTeams, num_matches \in WindowSizes,
       teams_fault \in BOOLEAN, fault \in FaultPoints :
    \E data \in (IF teams_fault \/ team_name \notin get_all_teams THEN {NotCalled}
                 ELSE FullScoutingData(team_name, num_matches, fault)) :
        /\ call' = [op |-> "api.get_scouting_data", team_name |-> team_name,
                    num_matches |-> num_matches, teams_fault |-> teams_fault,
                    fault |-> IF data = NotCalled THEN "none" ELSE fault]
        /\ frame' = [op |-> "api.get_scouting_data",
                     engine_calls |->
                        scout_engine_calls(team_name, teams_fault, get_all_teams)]
        /\ result' = get_scouting_data(team_name, num_matches, teams_fault,
                                       get_all_teams, data)
        /\ UNCHANGED <<tables, services>>

ApiDirect ==
    \E endpoint \in DirectEndpoints, team_name \in PathTeams,
       num_matches \in WindowSizes, fault \in BOOLEAN :
    \E r \in (IF fault THEN {[raised |-> "QueryError"]}
              ELSE EngineOutcomes(endpoint, team_name, num_matches)) :
        /\ call' = [op |-> "api." \o endpoint, team_name |-> team_name,
                    num_matches |-> num_matches, fault |-> fault]
        /\ frame' = [op |-> "api." \o endpoint, engine |-> r]
        /\ result' = wrap_500(r)
        /\ UNCHANGED <<tables, services>>

NextApi == ApiGetScoutingData \/ ApiDirect

SpecApi == InitService /\ [][NextApi]_vars

\* engine = DynamicScoutingEngine(); engine.connect(); the loop starts empty
StartBackend ==
    /\ event_loop = NotRunning
    /\ event_loop' = [tasks |-> [r \in Requests |-> NoTask]]
    /\ UNCHANGED <<tables, call, frame, result, analyzer, llm_api, session_state>>

\* a request arrives and becomes a task of the loop
Arrive ==
    /\ event_loop # NotRunning
    /\ \E r \in Requests, endpoint \in ServedEndpoints :
        /\ event_loop.tasks[r].status = "absent"
        /\ \A q \in Requests : q < r => event_loop.tasks[q].status # "absent"
        /\ event_loop' = [tasks |-> [event_loop.tasks EXCEPT ![r] =
                            [endpoint |-> endpoint, status |-> "ready",
                             executed |-> 0, in_flight |-> FALSE]]]
    /\ UNCHANGED <<tables, call, frame, result, analyzer, llm_api, session_state>>

\* the loop enters the handler body of a ready task
EnterHandler ==
    /\ event_loop # NotRunning
    /\ CanEnterHandler(event_loop.tasks)
    /\ \E r \in Requests :
        /\ event_loop.tasks[r].status = "ready"
        /\ event_loop' = [tasks |-> [event_loop.tasks EXCEPT ![r].status = "running"]]
    /\ UNCHANGED <<tables, call, frame, result, analyzer, llm_api, session_state>>

\* the handler calls self.conn.execute(...)
ExecuteBegin ==
    /\ event_loop # NotRunning
    /\ \E r \in Requests :
        /\ event_loop.tasks[r].status = "running"
        /\ ~event_loop.tasks[r].in_flight
        /\ event_loop.tasks[r].executed < QueriesOf(event_loop.tasks[r].endpoint)
        /\ event_loop' = [tasks |-> [event_loop.tasks EXCEPT ![r].in_flight = TRUE]]
    /\ UNCHANGED <<tables, call, frame, result, analyzer, llm_api, session_state>>

\* the call returns (or raises: the handler then goes to its except clause)
ExecuteEnd ==
    /\ event_loop # NotRunning
    /\ \E r \in Requests :
        /\ event_loop.tasks[r].in_flight
        /\ \E n \in {event_loop.tasks[r].executed + 1,
                     QueriesOf(event_loop.tasks[r].endpoint)} :
            event_loop' = [tasks |-> [event_loop.tasks EXCEPT
                                ![r].in_flight = FALSE, ![r].executed = n]]
    /\ UNCHANGED <<tables, call, frame, result, analyzer, llm_api, session_state>>

\* the handler returns its response
ReturnResponse ==
    /\ event_loop # NotRunning
    /\ \E r \in Requests :
        /\ event_loop.tasks[r].status = "running"
        /\ ~event_loop.tasks[r].in_flight
        /\ event_loop.tasks[r].executed = QueriesOf(event_loop.tasks[r].endpoint)
        /\ event_loop' = [tasks |-> [event_loop.tasks EXCEPT ![r].status = "done"]]
    /\ UNCHANGED <<tables, call, frame, result, analyzer, llm_api, session_state>>

NextBackend ==
    StartBackend \/ Arrive \/ EnterHandler \/ ExecuteBegin \/ ExecuteEnd \/ ReturnResponse

SpecBackend == InitService /\ [][NextBackend]_vars

\* GeminiAnalyzer(api_key): no client without a key or when configuring fails
NewAnalyzer ==
    /\ analyzer = NotRunning
    /\ \E client \in BOOLEAN :
        analyzer' = [client |-> client, chat |-> NoChat,
                     current_team_name |-> "none", current_team_data |-> "none",
                     sent |-> NothingSent]
    /\ UNCHANGED <<tables, call, frame, result, event_loop, llm_api, session_state>>

SetTeamContext ==
    /\ analyzer # NotRunning
    /\ \E team_name \in TeamArgs, create_ok \in BOOLEAN, send_ok \in BOOLEAN :
        analyzer' = set_team_context(analyzer, team_name, create_ok, send_ok)
    /\ UNCHANGED <<tables, call, frame, result, event_loop, llm_api, session_state>>

GenerateFullReport ==
    /\ analyzer # NotRunning
    /\ analyzer' = IF may_send_prompt(analyzer)
                   THEN [analyzer EXCEPT !.sent = SentOn(analyzer, "report")]
                   ELSE [analyzer EXCEPT !.sent = NothingSent]
    /\ UNCHANGED <<tables, call, frame, result, event_loop, llm_api, session_state>>

AskQuestion ==
    /\ analyzer # NotRunning
    /\ analyzer' = IF may_send_prompt(analyzer)
                   THEN [analyzer EXCEPT !.sent = SentOn(analyzer, "question")]
                   ELSE [analyzer EXCEPT !.sent = NothingSent]
    /\ UNCHANGED <<tables, call, frame, result, event_loop, llm_api, session_state>>

GetSpecificAnalysis ==
    /\ analyzer # NotRunning
    /\ \E analysis_type \in AnalysisTypes :
        analyzer' = IF may_send_analysis(analyzer, analysis_type)
                    THEN [analyzer EXCEPT !.sent = SentOn(analyzer, "analysis")]
                    ELSE [analyzer EXCEPT !.sent = NothingSent]
    /\ UNCHANGED <<tables, call, frame, result, event_loop, llm_api, session_state>>

NextAnalyzer ==
    NewAnalyzer \/ SetTeamContext \/ GenerateFullReport \/ AskQuestion
        \/ GetSpecificAnalysis

SpecAnalyzer == InitService /\ [][NextAnalyzer]_vars

\* the module is imported: LAST_API_CALL = 0, long before now
ImportEngine ==
    /\ llm_api = NotRunning
    /\ llm_api' = [since_mark |-> MIN_API_INTERVAL, since_start |-> MIN_API_INTERVAL,
                   gaps |-> <<>>, calls |-> <<>>]
    /\ UNCHANGED <<tables, call, frame, result, event_loop, analyzer, session_state>>

\* a second passes between two asks
ClockTick ==
    /\ llm_api # NotRunning
    /\ llm_api' = [llm_api EXCEPT !.since_mark = Cap(llm_api.since_mark + 1),
                                  !.since_start = Cap(llm_api.since_start + 1)]
    /\ UNCHANGED <<tables, call, frame, result, event_loop, analyzer, session_state>>

\* ask, with the time its calls take
AskTimed ==
    /\ llm_api # NotRunning
    /\ \E client \in BOOLEAN, kind \in GenerationKinds,
          fix \in {GenerationReply(k) : k \in {"ok", "error"}},
          d \in ApiDurations, e \in ExecDurations, interpretation \in {NULL, "analysis"} :
       \E out1 \in ConnOutcomes(GenerationReply(kind).text),
          out2 \in ConnOutcomes(strip_fences(fix.text)) :
        LET gen == GenerationReply(kind)
            cs == api_calls(client, kind, out1, fix.ok, out2)
        IN  /\ call' = [op |-> "ask", question |-> "question", team_name |-> NULL]
            /\ frame' = [op |-> "ask", client |-> client,
                         executed |-> ask_executed(client, gen, out1, fix)]
            /\ result' = [raised |-> "", value |->
                            ask("question", NULL, client, gen, out1, fix, out2,
                                interpretation)]
            /\ llm_api' = after_ask(llm_api, cs, kind, out1, fix.ok, d, e)
    /\ UNCHANGED <<tables, event_loop, analyzer, session_state>>

NextAskClock == ImportEngine \/ ClockTick \/ AskTimed

SpecAskClock == InitService /\ [][NextAskClock]_vars

PostgresAsk ==
    \E team_name \in {NULL, "Sentinels"}, client \in BOOLEAN, lookup_ok \in BOOLEAN,
       reply \in PgModelReplies, outcome \in {"rows", "empty", "error"} :
        LET r == pg_ask("question", team_name, client, lookup_ok, reply, outcome)
        IN  /\ call' = [op |-> "postgres.ask", question |-> "question",
                        team_name |-> team_name]
            /\ frame' = [op |-> "postgres.ask", client |-> client,
                         sent |-> r.sent, queried |-> r.queried]
            /\ result' = IF r.raised # "" THEN [raised |-> r.raised]
                         ELSE [raised |-> "", value |-> r.value]
            /\ UNCHANGED <<tables, services>>

NextPostgresAsk == PostgresAsk

SpecPostgresAsk == InitProfile /\ [][NextPostgresAsk]_vars

PostgresGetTeamOverview ==
    \E team_name \in PathTeams \cup {"LOUD"} :
    \E ms \in pg_map_query(team_name), rs \in pg_recent_query(team_name) :
        /\ call' = [op |-> "postgres.get_team_overview", team_name |-> team_name]
        /\ frame' = [op |-> "postgres.get_team_overview",
                     win_data |-> pg_win_query(team_name)]
        /\ result' = [raised |-> "", value |-> pg_get_team_overview(team_name, ms, rs)]
        /\ UNCHANGED <<tables, services>>

NextPostgresOverview == PostgresGetTeamOverview

SpecPostgresOverview == InitSeries /\ [][NextPostgresOverview]_vars

\* the browser opens the app: the session state is initialised
OpenApp ==
    /\ session_state = NotRunning
    /\ session_state' = FreshSession
    /\ UNCHANGED <<tables, call, frame, result, event_loop, analyzer, llm_api>>

\* a widget changes and the script runs: a team is selected, Generate Report
\* is clicked, a question is asked
RunScript ==
    /\ session_state # NotRunning
    /\ \E selected_team \in get_all_teams, generate_btn \in BOOLEAN,
          data_ok \in BOOLEAN, user_question \in BOOLEAN :
        LET r == script_run(session_state, selected_team, generate_btn, data_ok,
                            user_question)
        IN  /\ Len(r.session.chat_history) <= MaxChat
            /\ call' = [op |-> "app.run", selected_team |-> selected_team,
                        generate_btn |-> generate_btn, user_question |-> user_question,
                        clear |-> FALSE]
            /\ frame' = [op |-> "app.run", chat_calls |-> r.chat_calls]
            /\ result' = [raised |-> IF generate_btn /\ ~data_ok THEN "Exception" ELSE ""]
            /\ session_state' = r.session
    /\ UNCHANGED <<tables, event_loop, analyzer, llm_api>>

\* Clear Chat History is clicked
ClearChat ==
    /\ session_state # NotRunning
    /\ \E selected_team \in get_all_teams, user_question \in BOOLEAN :
        LET r == clear_run(session_state, selected_team, user_question)
        IN  /\ Len(script_run(session_state, selected_team, FALSE, TRUE,
                              user_question).session.chat_history) \in 1..MaxChat
            /\ call' = [op |-> "app.run", selected_team |-> selected_team,
                        generate_btn |-> FALSE, user_question |-> user_question,
                        clear |-> TRUE]
            /\ frame' = [op |-> "app.run", chat_calls |-> r.chat_calls]
            /\ result' = [raised |-> ""]
            /\ session_state' = r.session
    /\ UNCHANGED <<tables, event_loop, analyzer, llm_api>>

NextApp == OpenApp \/ RunScript \/ ClearChat

SpecApp == InitService /\ [][NextApp]_vars

\* ------------------------------------------------------------------- claims
OverviewReturned == call.op = "get_team_overview" /\ result.raised = ""

\* the finished series of the team the last call named: what its window is cut from
Available ==
    {i \in DOMAIN series :
        /\ (series[i].team1_name = call.team_name \/ series[i].team2_name = call.team_name)
        /\ series[i].finished}

C8_WindowAndRecord ==
    OverviewReturned =>
        LET rs == frame.recent_series
            sampled == {rs[j].series_id : j \in DOMAIN rs}
            W == Cardinality({i \in sampled :
                    \/ /\ series[i].team1_name = call.team_name
                       /\ series[i].winner_team_id = series[i].team1_id
                    \/ /\ series[i].team1_name # call.team_name
                       /\ series[i].team2_name = call.team_name
                       /\ series[i].winner_team_id = series[i].team2_id})
            L == Len(rs) - W
        IN  /\ Len(rs) = Min2(call.last_n_matches, Cardinality(Available))
            /\ Cardinality(sampled) = Len(rs)
            /\ sampled \subseteq Available
            /\ \A i \in sampled, u \in Available \ sampled :
                    series[u].started_at <= series[i].started_at
            /\ \A j \in DOMAIN rs : (rs[j].result = "WIN") <=>
                    \/ /\ series[rs[j].series_id].team1_name = call.team_name
                       /\ series[rs[j].series_id].winner_team_id = series[rs[j].series_id].team1_id
                    \/ /\ series[rs[j].series_id].team1_name # call.team_name
                       /\ series[rs[j].series_id].winner_team_id = series[rs[j].series_id].team2_id
            /\ result.value.series_record = <<W, L>>
            /\ W + L > 0 =>
                  LET d == result.value.win_rate * (W + L) - 1000 * W
                  IN  2 * d <= W + L /\ -2 * d <= W + L

\* C8's scenario: ten series asked for, six won and four lost: "6-4" and 60.0
C8_Witness ==
    /\ OverviewReturned
    /\ call.team_name = "Sentinels" /\ call.last_n_matches = 10
    /\ result.value.series_record = <<6, 4>>
    /\ result.value.win_rate = 600

\* C6: head-to-head counts are symmetric: asked for (A, B) and then for (B, A)
\* on the same storage, team1_wins of the one is team2_wins of the other, and
\* the other way round.
C6_HeadToHeadSymmetric ==
    [][(/\ call.op = "get_head_to_head" /\ call'.op = "get_head_to_head"
        /\ call'.team1 = call.team2 /\ call'.team2 = call.team1)
       => (/\ result.value.team1_wins = result'.value.team2_wins
           /\ result.value.team2_wins = result'.value.team1_wins)]_vars

WeaknessesCalled == call.op = "get_team_weaknesses"

\* the games on map m the team of the last call has composition rows for
GamesOn(m) ==
    {games[g].game_id : g \in {x \in DOMAIN games :
        /\ games[x].map_name = m
        /\ \E c \in DOMAIN game_compositions :
              /\ game_compositions[c].game_id = games[x].game_id
              /\ game_compositions[c].team_name = call.team_name}}

\* those of them the team won
WinsOn(m) ==
    {games[g].game_id : g \in {x \in DOMAIN games :
        /\ games[x].game_id \in GamesOn(m)
        /\ games[x].winner_team_id = TeamIdOf(call.team_name)}}

\* C2: every map_stats row of get_team_overview reports games >= 2, games being
\* the number of distinct games the team played on the map, and a map with
\* exactly one game of the team never appears, whatever the number of
\* game_compositions rows per game.
C2_MapStatsCountGames ==
    OverviewReturned =>
        /\ \A j \in DOMAIN result.value.map_stats :
                /\ result.value.map_stats[j].games >= 2
                /\ result.value.map_stats[j].games =
                        Cardinality(GamesOn(result.value.map_stats[j].map))
        /\ \A m \in MapNames : Cardinality(GamesOn(m)) = 1 =>
                \A j \in DOMAIN result.value.map_stats : result.value.map_stats[j].map # m

\* C4: the Map Pool finding of get_team_weaknesses lists exactly the maps with
\* at least 3 games of the team and a win rate below 45, it is HIGH iff one of
\* them is below 35 and MEDIUM otherwise, and a map with fewer than 3 games is
\* never flagged.
C4_MapPoolThresholds ==
    WeaknessesCalled =>
        LET w == frame.weaknesses
            mp == {i \in DOMAIN w : w[i].category = "Map Pool"}
            flaggable == {m \in MapNames :
                            /\ Cardinality(GamesOn(m)) >= 3
                            /\ 100 * Cardinality(WinsOn(m)) < 45 * Cardinality(GamesOn(m))}
            very == {m \in flaggable :
                            100 * Cardinality(WinsOn(m)) < 35 * Cardinality(GamesOn(m))}
        IN  /\ Cardinality(mp) <= 1
            /\ mp # {} <=> flaggable # {}
            /\ \A i \in mp :
                /\ {w[i].details[k].name : k \in DOMAIN w[i].details}
                        = {Title(m) : m \in flaggable}
                /\ w[i].severity = IF very # {} THEN "HIGH" ELSE "MEDIUM"

\* C3: in get_player_stats a player's kills, deaths and assists are the sums
\* over the sampled games; with deaths 0 and kills > 0 both kd_ratio and kda are
\* null; with deaths > 0 kd_ratio is kills/deaths and kda is
\* (kills + 0.5*assists)/deaths, each to two decimals.
C3_KdNullOnZeroDeaths ==
    (call.op = "get_player_stats" /\ result.raised = "") =>
        \A i \in DOMAIN result.value.players :
            LET p == result.value.players[i]
                mine == {e \in DOMAIN player_economy :
                            /\ player_economy[e].player_name = p.name
                            /\ player_economy[e].team_id = TeamIdOf(call.team_name)}
            IN  /\ Len(games) <= 3 * call.last_n_matches =>
                    /\ p.kills = SumOver(mine, [e \in mine |-> player_economy[e].total_kills])
                    /\ p.deaths = SumOver(mine, [e \in mine |-> player_economy[e].total_deaths])
                    /\ p.assists = SumOver(mine, [e \in mine |-> player_economy[e].total_assists])
                /\ (p.deaths = 0 /\ p.kills > 0) =>
                    (p.kd_ratio = NullNum /\ p.kda = NullNum)
                /\ p.deaths > 0 =>
                    LET d == p.kd_ratio * p.deaths - 100 * p.kills
                        a == p.kda * 2 * p.deaths - 100 * (2 * p.kills + p.assists)
                    IN  /\ p.kd_ratio >= 0 /\ p.kda >= 0
                        /\ 2 * d <= p.deaths /\ -2 * d <= p.deaths
                        /\ a <= p.deaths /\ -a <= p.deaths

\* C3's cases: one player without a death and with kills, reported with null
\* ratios, next to one with 2 kills, 1 assist and 3 deaths, reported 0.67 and 0.83
C3_Witness ==
    /\ call.op = "get_player_stats" /\ result.raised = ""
    /\ \E i, j \in DOMAIN result.value.players :
            /\ result.value.players[i].deaths = 0
            /\ result.value.players[i].kills > 0
            /\ result.value.players[i].kd_ratio = NullNum
            /\ result.value.players[i].kda = NullNum
            /\ result.value.players[j].deaths = 3
            /\ result.value.players[j].kills = 2
            /\ result.value.players[j].assists = 1
            /\ result.value.players[j].kd_ratio = 67
            /\ result.value.players[j].kda = 83

\* C10: get_team_weaknesses returns one MEDIUM Player Performance finding iff
\* some player has at least 3 sampled games and kd_ratio < 0.9, its details list
\* exactly those players, and its recommendation names the one of them with the
\* lowest kd_ratio.
C10_TargetsLowestKd ==
    (WeaknessesCalled /\ result.raised = "") =>
        LET ps == frame.players.players
            qual == {k \in DOMAIN ps : ps[k].games >= 3 /\ ps[k].kd_ratio < 90}
            w == result.value.weaknesses
            pf == {i \in DOMAIN w : w[i].category = "Player Performance"}
        IN  /\ Cardinality(pf) <= 1
            /\ pf # {} <=> qual # {}
            /\ \A i \in pf :
                /\ w[i].severity = "MEDIUM"
                /\ Len(w[i].details) = Cardinality(qual)
                /\ {w[i].details[k].name : k \in DOMAIN w[i].details}
                        = {ps[k].name : k \in qual}
                /\ \E k \in qual :
                        /\ ps[k].name = w[i].recommendation.target
                        /\ \A k2 \in qual : ps[k].kd_ratio <= ps[k2].kd_ratio

\* C9: get_team_weaknesses builds a Pistol Rounds finding for the attack side
\* iff the attack pistol win rate is below 40, HIGH iff below 30 and MEDIUM
\* otherwise, recommending to expect defensive pistol wins and prepare for
\* anti-eco; the same with 40 and 30 for the defense side; 2 wins in 10 attack
\* pistols give a HIGH finding.
C9_PistolThresholds ==
    WeaknessesCalled =>
        LET w == frame.weaknesses
            ap == frame.pistol.attack_pistol
            dp == frame.pistol.defense_pistol
            pr == {i \in DOMAIN w : w[i].category = "Pistol Rounds"}
            att == {i \in pr : w[i].finding.text = "Weak attack pistol rounds ({rate}%)"}
            def == {i \in pr : w[i].finding.text = "Weak defense pistol rounds ({rate}%)"}
        IN  /\ pr = att \cup def
            /\ Cardinality(att) <= 1 /\ Cardinality(def) <= 1
            /\ att # {} <=> ap.win_rate < 400
            /\ def # {} <=> dp.win_rate < 400
            /\ \A i \in att :
                /\ w[i].severity = IF ap.win_rate < 300 THEN "HIGH" ELSE "MEDIUM"
                /\ w[i].finding.rate = ap.win_rate
                /\ w[i].recommendation = "Expect defensive pistol wins, prepare for anti-eco"
            /\ \A i \in def :
                /\ w[i].severity = IF dp.win_rate < 300 THEN "HIGH" ELSE "MEDIUM"
                /\ w[i].finding.rate = dp.win_rate
            /\ (ap.total = 10 /\ ap.wins = 2) =>
                    (ap.win_rate = 200 /\ \E i \in att : w[i].severity = "HIGH")

\* C9's scenario: 2 of 10 attack pistol rounds won, a HIGH attack finding returned
C9_Witness ==
    /\ WeaknessesCalled /\ result.raised = ""
    /\ frame.pistol.attack_pistol.total = 10
    /\ frame.pistol.attack_pistol.wins = 2
    /\ \E i \in DOMAIN result.value.weaknesses :
            /\ result.value.weaknesses[i].category = "Pistol Rounds"
            /\ result.value.weaknesses[i].severity = "HIGH"
            /\ result.value.weaknesses[i].recommendation =
                    "Expect defensive pistol wins, prepare for anti-eco"

ProfileSections ==
    {"overview", "compositions", "pistol_rounds", "players", "round_patterns",
     "weapon_economy", "weaknesses"}

\* C5: when the storage raises a query error in exactly one aggregation call of
\* generate_full_scouting_data, the call still returns, with all seven sections.
C5_PartialFailureReturns ==
    (call.op = "generate_full_scouting_data" /\ call.fault # "none") =>
        /\ result.raised = ""
        /\ DOMAIN result.value = ProfileSections

\* C7: generate_full_scouting_data called twice with the same arguments on the
\* same storage returns equal output both times.
C7_SameOutputTwice ==
    [][(/\ call.op = "generate_full_scouting_data" /\ call' = call
        /\ result.raised = "" /\ result'.raised = "")
       => result'.value = result.value]_vars

\* C11: the recommendation of a Map Pool finding names the qualifying map
\* (games >= 3, win rate < 45) with the lowest win rate.
C11_ForcesLowestWinRateMap ==
    WeaknessesCalled =>
        LET w == frame.weaknesses
            ms == frame.overview.map_stats
            qual == {k \in DOMAIN ms : ms[k].games >= 3 /\ ms[k].win_rate < 450}
        IN  \A i \in {x \in DOMAIN w : w[x].category = "Map Pool"} :
                \E k \in qual :
                    /\ Title(ms[k].map) = w[i].recommendation.target
                    /\ \A k2 \in qual : ms[k].win_rate <= ms[k2].win_rate

\* the rounds with the spike planted that the team of the last call defended
DefendedPlants ==
    {r \in DOMAIN rounds :
        /\ rounds[r].bomb_planted
        /\ rounds[r].defender_team_id = TeamIdOf(call.team_name)}

\* C12: get_team_weaknesses returns a Post-Plant finding iff the team has a
\* defense-side post-plant row with a conversion rate below 35; the finding is
\* MEDIUM and recommends prioritising spike plants; the attack-side rate gives
\* none, and a team that defended no planted round gets none.
C12_PostPlantFromDefenseOnly ==
    (WeaknessesCalled /\ result.raised = "") =>
        LET pp == frame.patterns.post_plant
            defRows == {i \in DOMAIN pp : pp[i].side = "defense"}
            w == result.value.weaknesses
            ppf == {i \in DOMAIN w : w[i].category = "Post-Plant"}
        IN  /\ Cardinality(ppf) <= 1
            /\ Cardinality(defRows) <= 1
            /\ defRows # {} <=> DefendedPlants # {}
            /\ \A i \in defRows :
                    Cardinality(DefendedPlants) <= 20 * call.last_n_matches
                        => pp[i].situations = Cardinality(DefendedPlants)
            /\ ppf # {} <=> \E i \in defRows : pp[i].conversion_rate < 350
            /\ \A i \in ppf :
                /\ w[i].severity = "MEDIUM"
                /\ w[i].recommendation = "Prioritize spike plants - they struggle to retake"

\* C12's case: one retake in three converted and a Post-Plant finding returned,
\* next to an attack-side row of the same team
C12_Witness ==
    /\ WeaknessesCalled /\ result.raised = ""
    /\ \E i, j \in DOMAIN frame.patterns.post_plant :
            /\ frame.patterns.post_plant[i].side = "defense"
            /\ frame.patterns.post_plant[i].situations = 3
            /\ frame.patterns.post_plant[i].wins = 1
            /\ frame.patterns.post_plant[j].side = "attack"
    /\ \E i \in DOMAIN result.value.weaknesses :
            result.value.weaknesses[i].category = "Post-Plant"

\* C13: the summary is the no-weaknesses message iff the findings list is
\* empty; with a HIGH finding it is the critical message, counting the HIGH
\* findings and naming their categories, in order, and no others; otherwise it
\* states the number of findings; total_weaknesses is the length of the list.
C13_SummaryBySeverity ==
    (WeaknessesCalled /\ result.raised = "") =>
        LET v == result.value
            w == v.weaknesses
            high == {i \in DOMAIN w : w[i].severity = "HIGH"}
            nth(k) == CHOOSE i \in high : Cardinality({j \in high : j < i}) = k - 1
        IN  /\ v.total_weaknesses = Len(w)
            /\ (v.summary.text = "No significant weaknesses identified - well-rounded team.")
                    <=> w = <<>>
            /\ high # {} =>
                /\ v.summary.text = "CRITICAL: {n} major weakness(es) - {categories}"
                /\ v.summary.n = Cardinality(high)
                /\ v.summary.categories = [k \in 1..Cardinality(high) |-> w[nth(k)].category]
            /\ (w # <<>> /\ high = {}) =>
                /\ v.summary.text = "Found {n} exploitable weakness(es)"
                /\ v.summary.n = Len(w)
                /\ v.summary.n = v.total_weaknesses

\* C13's case: a HIGH and a MEDIUM finding, the critical summary naming the one
C13_Witness ==
    /\ WeaknessesCalled /\ result.raised = ""
    /\ Len(result.value.weaknesses) = 2
    /\ \E i \in DOMAIN result.value.weaknesses : result.value.weaknesses[i].severity = "MEDIUM"
    /\ result.value.summary.text = "CRITICAL: {n} major weakness(es) - {categories}"
    /\ result.value.summary.n = 1
    /\ result.value.summary.categories = <<"Pistol Rounds">>

\* C14: every finding get_team_weaknesses builds, in the DuckDB engine and in
\* the PostgreSQL engine, has severity HIGH or MEDIUM and one of the four
\* categories Map Pool, Pistol Rounds, Player Performance, Post-Plant.
C14_SeverityAndCategory ==
    (call.op \in {"get_team_weaknesses", "postgres.get_team_weaknesses"}) =>
        \A i \in DOMAIN frame.weaknesses :
            /\ frame.weaknesses[i].severity \in {"HIGH", "MEDIUM"}
            /\ frame.weaknesses[i].category \in
                    {"Map Pool", "Pistol Rounds", "Player Performance", "Post-Plant"}

\* C14's case in the PostgreSQL engine: a HIGH Map Pool finding and a Pistol
\* Rounds finding returned together
C14_Witness ==
    /\ call.op = "postgres.get_team_weaknesses"
    /\ \E i, j \in DOMAIN result.value.weaknesses :
            /\ result.value.weaknesses[i].category = "Map Pool"
            /\ result.value.weaknesses[i].severity = "HIGH"
            /\ result.value.weaknesses[j].category = "Pistol Rounds"
            /\ result.value.weaknesses[j].severity = "MEDIUM"

\* C15: in the DuckDB engine no SQL text holding one of the tokens DROP, DELETE,
\* UPDATE, INSERT, ALTER, TRUNCATE, CREATE, in any letter case, is passed to the
\* connection during ask, neither as the generated text nor as the repaired one.
C15_NoWriteIntentExecuted ==
    call.op = "ask" =>
        \A i \in DOMAIN frame.executed : ~HasWriteToken(frame.executed[i])

\* C16: GET /api/scout/{team_name} with a team_name that get_all_teams() does
\* not return answers 404, the 404 is not rewrapped as a 500, and
\* generate_full_scouting_data is not called for the request.
C16_UnknownTeamIs404 ==
    (/\ call.op = "api.get_scouting_data"
     /\ ~call.teams_fault
     /\ call.team_name \notin get_all_teams)
        => /\ result.raised = "HTTPException"
           /\ result.status_code = 404
           /\ \A i \in DOMAIN frame.engine_calls :
                    frame.engine_calls[i] # "generate_full_scouting_data"

C16_Witness ==
    /\ call.op = "api.get_scouting_data"
    /\ ~call.teams_fault
    /\ call.team_name \notin get_all_teams
    /\ result.raised = "HTTPException" /\ result.status_code = 404

\* C17: every team-keyed operation, and every endpoint that calls one directly,
\* answers NotFound for a team name that get_all_teams() does not return,
\* instead of a zero-valued or empty result.
C17_UnknownTeamNotFound ==
    (/\ call.op \in {"api." \o e : e \in DirectEndpoints}
     /\ ~call.fault
     /\ call.team_name \notin get_all_teams)
        => /\ result.raised = "HTTPException"
           /\ result.status_code = 404

\* C18: when the storage fails during one aggregation call inside
\* generate_full_scouting_data, the error reaches the caller, no aggregation
\* call after the failing one is started, and no profile, partial or whole,
\* is returned.
C18_FaultAbortsAssembly ==
    (call.op = "generate_full_scouting_data" /\ call.fault # "none")
        => /\ result.raised = "QueryError"
           /\ "value" \notin DOMAIN result
           /\ call.fault \in frame.started
           /\ \A i \in DOMAIN FullCalls, j \in DOMAIN FullCalls :
                (FullCalls[i] = call.fault /\ j > i) => FullCalls[j] \notin frame.started

C18_Witness ==
    /\ call.op = "generate_full_scouting_data"
    /\ call.fault = "pistol_rounds"
    /\ result.raised = "QueryError"
    /\ frame.started = {"overview", "compositions", "pistol_rounds"}

\* C19: zero-sample conditions never raise: also for a team with a player whose
\* total deaths are zero (kd_ratio null), get_player_stats and
\* get_team_weaknesses return normally.
C19_ZeroSampleNeverRaises ==
    call.op \in {"get_player_stats", "get_team_weaknesses"} => result.raised = ""

PistolReturned == call.op = "get_pistol_tendencies" /\ result.raised = ""

\* the stored pistol rounds the team id ti attacked, and those it defended
AttackPistols(ti) ==
    {i \in DOMAIN rounds : rounds[i].is_pistol_round /\ rounds[i].attacker_team_id = ti}

DefensePistols(ti) ==
    {i \in DOMAIN rounds :
        /\ rounds[i].is_pistol_round
        /\ rounds[i].defender_team_id = ti
        /\ rounds[i].attacker_team_id # ti}

WonAmong(S, ti) == Cardinality({i \in S : rounds[i].winner_team_id = ti})

\* a rate in tenths is 100 * wins / total to one decimal, and 0 without rounds
IsRateOf(rate, wins, total) ==
    IF total = 0 THEN rate = 0
    ELSE /\ 2 * (rate * total - 1000 * wins) <= total
         /\ 2 * (1000 * wins - rate * total) <= total

\* the side's figures agree with each other and with the stored rounds S of
\* that side, of which the query keeps at most `kept`
SideCounts(side, S, ti, uncut) ==
    /\ side.wins <= side.total
    /\ side.total = SumSeq([i \in DOMAIN side.by_map |-> side.by_map[i].rounds])
    /\ side.wins = SumSeq([i \in DOMAIN side.by_map |-> side.by_map[i].wins])
    /\ IsRateOf(side.win_rate, side.wins, side.total)
    /\ side.total <= Cardinality(S)
    /\ side.wins <= WonAmong(S, ti)
    /\ uncut => (side.total = Cardinality(S) /\ side.wins = WonAmong(S, ti))

\* C20: get_pistol_tendencies counts only rounds flagged as pistol rounds in
\* which the team attacks or defends, each on exactly one side (all of them
\* when the LIMIT of 6 * last_n_matches does not cut); per side wins <= total,
\* total is the sum of the by_map rounds and win_rate is 100 * wins / total to
\* one decimal, 0 when total is 0; overall_pistol_win_rate is the same rate of
\* the two sides' wins over the two sides' totals, 0 when both are 0.
C20_PistolCounts ==
    PistolReturned =>
        LET v == result.value
            a == v.attack_pistol
            d == v.defense_pistol
            ids == team_info(call.team_name)
        IN  /\ IsRateOf(v.overall_pistol_win_rate, a.wins + d.wins, a.total + d.total)
            /\ ids = {} => (a.total = 0 /\ d.total = 0)
            /\ ids # {} =>
                \E ti \in ids :
                    LET uncut == Cardinality(AttackPistols(ti))
                                    + Cardinality(DefensePistols(ti))
                                        <= call.last_n_matches * 6
                    IN  /\ SideCounts(a, AttackPistols(ti), ti, uncut)
                        /\ SideCounts(d, DefensePistols(ti), ti, uncut)
                        /\ a.total + d.total <= call.last_n_matches * 6

C20_Witness ==
    /\ PistolReturned
    /\ result.value.attack_pistol.total >= 3
    /\ result.value.attack_pistol.wins >= 1
    /\ result.value.attack_pistol.wins < result.value.attack_pistol.total
    /\ result.value.defense_pistol.total = 1
    /\ \E i \in DOMAIN rounds : ~rounds[i].is_pistol_round

HeadToHeadReturned == call.op = "get_head_to_head" /\ result.raised = ""

\* the stored series between the two teams of the last call, either way round
Between ==
    {i \in DOMAIN series :
        \/ series[i].team1_name = call.team1 /\ series[i].team2_name = call.team2
        \/ series[i].team1_name = call.team2 /\ series[i].team2_name = call.team1}

\* the list names exactly the series between the two teams, once each, and
\* every score has the maps of the first-named argument first
ListsSeriesBetween ==
    /\ Len(frame.matches) = Cardinality(Between)
    /\ Len(result.value.matches) = Len(frame.matches)
    /\ {frame.matches[j].series_id : j \in DOMAIN frame.matches}
            = {series[i].series_id : i \in Between}
    /\ \A j \in DOMAIN frame.matches :
            \E i \in Between :
                /\ series[i].series_id = frame.matches[j].series_id
                /\ result.value.matches[j].score =
                        IF series[i].team1_name = call.team1
                        THEN <<series[i].team1_score, series[i].team2_score>>
                        ELSE <<series[i].team2_score, series[i].team1_score>>

\* C21 as stated: get_head_to_head lists every series between the two teams and
\* no other, in chronological order of start time (earliest first), each score
\* with the maps of the first-named argument first.
C21_ChronologicalList ==
    HeadToHeadReturned =>
        /\ ListsSeriesBetween
        /\ \A j, k \in DOMAIN frame.matches :
                j < k => frame.matches[j].started_at <= frame.matches[k].started_at

\* the requests that have a query in flight, and those between their first
\* conn.execute and their last
QueriesInFlight ==
    IF event_loop = NotRunning THEN {}
    ELSE {r \in Requests : event_loop.tasks[r].in_flight}

MidSequence ==
    IF event_loop = NotRunning THEN {}
    ELSE {r \in Requests :
            /\ event_loop.tasks[r].status = "running"
            /\ \/ event_loop.tasks[r].in_flight
               \/ /\ event_loop.tasks[r].executed > 0
                  /\ event_loop.tasks[r].executed < QueriesOf(event_loop.tasks[r].endpoint)}

\* C22: on the backend's one shared connection no two requests have queries in
\* flight at the same time, and for any interleaving of requests one handler's
\* sequence of conn.execute calls is over before another handler's begins.
C22_QueriesSerialized ==
    /\ Cardinality(QueriesInFlight) <= 1
    /\ Cardinality(MidSequence) <= 1

C22_Witness ==
    /\ event_loop # NotRunning
    /\ \E r, q \in Requests :
        /\ r # q
        /\ event_loop.tasks[r].status = "running" /\ event_loop.tasks[r].in_flight
        /\ event_loop.tasks[r].executed > 0
        /\ event_loop.tasks[q].status = "ready"

\* the series the last get_team_overview sampled
WindowSeries == {frame.recent_series[j].series_id : j \in DOMAIN frame.recent_series}

\* the rows of the team's join of games with compositions on map m whose game
\* belongs to a sampled series
WindowRows(m) ==
    {jc \in map_join(call.team_name) :
        /\ games[jc[1]].map_name = m
        /\ games[jc[1]].series_id \in WindowSeries}

\* C23: the map_stats of get_team_overview(team, N) are computed only from the
\* games of the sampled window, the team's N most recent finished series: a
\* game of an older series does not count.
C23_MapStatsFromWindow ==
    OverviewReturned =>
        \A j \in DOMAIN result.value.map_stats :
            result.value.map_stats[j].games
                = Cardinality(WindowRows(frame.map_stats[j].map_name))

\* C24: after any sequence of set_team_context, generate_full_report,
\* ask_question and get_specific_analysis calls, a report, question or analysis
\* prompt is sent only on a session that took the scouting data of the current
\* team, never on one holding another team's data or none.
C24_PromptOnCurrentTeamSession ==
    (analyzer # NotRunning /\ analyzer.sent.kind \in {"report", "question", "analysis"})
        => /\ analyzer.sent.session.received = analyzer.sent.team
           /\ analyzer.sent.team = analyzer.current_team_name

\* C25: across any sequence of ask calls, any two consecutive calls of the
\* text-generation API (generation, its 429 retry, repair, interpretation)
\* start at least MIN_API_INTERVAL seconds apart.
C25_CallsSpaced ==
    llm_api # NotRunning =>
        \A i \in DOMAIN llm_api.gaps : llm_api.gaps[i] >= MIN_API_INTERVAL

PostgresAsked == call.op = "postgres.ask"

\* a text that, upper-cased, starts with SELECT and holds none of the seven
\* keywords as a substring
IsPlainSelect(sql) ==
    /\ sql # <<>> /\ Upper(sql[1]) = "SELECT"
    /\ \A i \in DOMAIN sql : KeywordsIn(Upper(sql[i])) = {}

\* execute_query gets only plain SELECT texts, and an ask that returns without
\* calling it returns an error and no results
QueriesOnlyPlainSelects ==
    /\ \A i \in DOMAIN frame.queried : IsPlainSelect(frame.queried[i])
    /\ (frame.queried = <<>> /\ result.raised = "")
            => (result.value.error # NULL /\ result.value.results.none)

\* C26 as stated: execute_query is invoked only on generated SQL that starts
\* with SELECT and holds no dangerous keyword; in every other case ask returns
\* with error set and results None and no statement has been sent to the
\* database.
C26_NothingSentOtherwise ==
    PostgresAsked =>
        /\ QueriesOnlyPlainSelects
        /\ frame.queried = <<>> => (result.raised = "" /\ frame.sent = <<>>)

\* C26 amended: the same, except that an ask without a team name has first
\* sent the fixed team lookup of get_all_teams, and raises when that fails.
C26_OnlyTeamLookupSentOtherwise ==
    PostgresAsked =>
        /\ QueriesOnlyPlainSelects
        /\ frame.queried = <<>> =>
                /\ \A i \in DOMAIN frame.sent : frame.sent[i] = AllTeamsQuery
                /\ call.team_name # NULL => (result.raised = "" /\ frame.sent = <<>>)
                /\ result.raised # "" => (call.team_name = NULL /\ frame.client)

C26_Witness ==
    /\ PostgresAsked
    /\ call.team_name = NULL
    /\ frame.queried = <<>>
    /\ frame.sent = <<AllTeamsQuery>>
    /\ result.raised = ""
    /\ result.value.sql = <<"select", "updated_at", "from", "series">>
    /\ result.value.results.none

\* the last call was ask of the DuckDB engine, with the answers it met recorded
Asked == call.op = "ask" /\ "gen" \in DOMAIN frame

\* generate_sql_from_question returned a statement
Generated == frame.client /\ frame.gen.ok

\* the first execution failed, the repair came back and executed successfully
RepairSucceeded ==
    Generated /\ frame.out1 = "error" /\ frame.fix.ok /\ frame.out2 # "error"

\* C27: for every outcome of ask, error is None exactly when results is not
\* None; no SQL is executed when the generation failed; at most two statements
\* are executed, the second only after the first failed; the returned sql is
\* the repaired statement with the repaired statement's rows when the repair
\* executed successfully, and otherwise the original statement, with the
\* original execution error when that execution failed.
C27_AskOutcomes ==
    Asked =>
        LET v == result.value
            original == strip_fences(frame.gen.text)
            repaired == strip_fences(frame.fix.text)
        IN  /\ result.raised = ""
            /\ (v.error = <<>>) <=> ~v.results.none
            /\ ~Generated => (frame.executed = <<>> /\ v.sql = <<>> /\ v.results.none)
            /\ Len(frame.executed) <= 2
            /\ Generated =>
                    /\ Len(frame.executed) >= 1
                    /\ frame.executed[1] = original
                    /\ Len(frame.executed) = 2 =>
                            (frame.out1 = "error" /\ frame.executed[2] = repaired)
            /\ RepairSucceeded =>
                    /\ v.sql = repaired
                    /\ ~v.results.none
                    /\ v.results.row_count = (IF frame.out2 = "rows" THEN 1 ELSE 0)
            /\ (Generated /\ ~RepairSucceeded) =>
                    /\ v.sql = original
                    /\ frame.out1 = "error" =>
                            v.error = <<"SQL execution failed:", "error in">> \o original
                    /\ frame.out1 # "error" =>
                            v.results.row_count = (IF frame.out1 = "rows" THEN 1 ELSE 0)

C27_Witness ==
    /\ Asked
    /\ RepairSucceeded
    /\ Len(frame.executed) = 2
    /\ frame.executed[1] # frame.executed[2]
    /\ result.value.sql = frame.executed[2]
    /\ result.value.error = <<>>
    /\ result.value.results.row_count = 1

\* C28: in the PostgreSQL engine's get_team_overview, series_record "W-L" has
\* W + L equal to the number of series involving the team and W at most that
\* number; a team with no series gets series_record "0-0" and win_rate 0.
C28_RecordCountsSeries ==
    call.op = "postgres.get_team_overview" =>
        LET involving == Cardinality(pg_team_series(call.team_name))
            record == result.value.series_record
        IN  /\ record[1] + record[2] = involving
            /\ record[1] <= involving
            /\ involving = 0 => (record = <<0, 0>> /\ result.value.win_rate = 0)

\* the stored series that name the team of the last call
SeriesNaming ==
    {i \in DOMAIN series :
        series[i].team1_name = call.team_name \/ series[i].team2_name = call.team_name}

\* C29: get_team_weaknesses of the DuckDB engine emits a Pistol Rounds finding
\* for a side only if at least one pistol round was sampled on that side, and a
\* team with no data at all gets no finding and the no-weaknesses summary.
C29_PistolFindingNeedsSample ==
    (WeaknessesCalled /\ result.raised = "") =>
        LET w == frame.weaknesses
            att == {i \in DOMAIN w : w[i].finding.text = "Weak attack pistol rounds ({rate}%)"}
            def == {i \in DOMAIN w : w[i].finding.text = "Weak defense pistol rounds ({rate}%)"}
        IN  /\ att # {} => frame.pistol.attack_pistol.total > 0
            /\ def # {} => frame.pistol.defense_pistol.total > 0
            /\ SeriesNaming = {} =>
                    /\ result.value.weaknesses = <<>>
                    /\ result.value.summary.text
                            = "No significant weaknesses identified - well-rounded team."

\* C30: in the Streamlit app, after any sequence of team selections, Generate
\* Report clicks, questions and chat clears, every call of chat_about_team
\* passes scouting data generated for the team whose name is passed with it,
\* and chat_history holds only exchanges about the team of the most recently
\* generated report.
C30_ChatAboutReportTeam ==
    (session_state # NotRunning /\ call.op = "app.run") =>
        /\ \A i \in DOMAIN frame.chat_calls :
                frame.chat_calls[i].team_data = frame.chat_calls[i].team_name
        /\ \A i \in DOMAIN session_state.chat_history :
                /\ session_state.chat_history[i].team_name = session_state.selected_team
                /\ session_state.chat_history[i].team_data = session_state.selected_team

====
